---- MODULE Spec2Model ----
(***************************************************************************)
(* Model of obs_studio_exporter's MetricCollector (src/main.go): the       *)
(* scrape path (Describe, Collect), the registry of audio sources, the     *)
(* native resources each tracked Source owns, and the volmeter callback    *)
(* mc_volmeter_updated_go that the engine runs on its own threads.         *)
(*                                                                         *)
(* Granularity.  Every lock acquisition, every store of the callback into  *)
(* a ring buffer, every native free/destroy and every blocking channel     *)
(* send group is a separate step.  Code that runs entirely under c.mu and  *)
(* touches only state guarded by c.mu is one step.  The loads of one       *)
(* `for chn` iteration of the reduction (main.go 349-357) are taken as one *)
(* snapshot; since that loop takes no Source lock, the snapshot may fall   *)
(* between any two stores of a callback.                                   *)
(***************************************************************************)
EXTENDS Integers, Sequences, FiniteSets, TLC

(***************************************************************************)
(* Program constants                                                       *)
(***************************************************************************)
\* main.go:57
circBufSamples == 32
\* main.go:330, src.Channels = 2
SrcChannels == 2
\* math.Inf(-1), main.go:314 and 348: an integer below every sample value
NegInf == -1

(***************************************************************************)
(* Bounds of the model                                                     *)
(***************************************************************************)
\* calls the environment makes over a run: scrapes (Collect) plus volmeter
\* updates (mc_volmeter_updated_go); Describe leaves nothing behind and is
\* not counted
MaxCalls == 3
\* tracker constructions the engine refuses over a run
MaxFaults == 1
\* sources the engine yields in one obs_enum_sources pass (with repeats)
MaxEnum == 2
\* callbacks already completed on the tracked source when a ring run starts
MaxRingPushes == 33
\* calls the environment makes over a ring run
MaxRingCalls == 2
\* volmeter updates the engine delivers over a pair run
MaxPairCalls == 2
\* calls the environment makes over a fair run
MaxLiveCalls == 2

\* identifiers of the engine's audio sources (obs_source_get_id)
SourceIds == {"a", "b"}
\* what C.GoString may return when it reads a freed identifier buffer
Junk == "junk"
\* goroutines serving scrapes, engine threads delivering volmeter updates
Scrapers == {"s1", "s2"}
Threads == {"t1", "t2"}
NoOne == "none"

VARIABLES
  obsLock,      \* holder of the package-level obsLock, or NoOne
  mu,           \* holder of MetricCollector.mu, or NoOne
  sources,      \* MetricCollector.sources: id -> handle of a Source in heap
  heap,         \* every *Source ever inserted: heap[id][n], handle <<id, n>>
  cstr,         \* every C.CString(id) allocation: cstr[id][n] = [frees]
  volm,         \* every obs_volmeter_t created for id: volm[id][n] = [cb, destroys]
  pc,           \* position of each scraper goroutine
  loc,          \* locals of each scraper's Collect call
  out,          \* what each scraper has sent on ch in its current call
  cb,           \* state of each engine thread's callback invocation
  hist,         \* per Source, per (channel, kind): the values stored so far
  quota,        \* what the environment may still do: calls and faults left,
                \* the frames its updates carry, the threads that deliver them,
                \* the outputs and encoders its enumerations yield
  lastCreated,  \* ids whose tracker the most recent reconciliation created
  lastSent,     \* per Source and channel: the summary most recently sent for
                \* it, kept for as long as no callback has stored into the
                \* Source since the reduction that produced it
  srv           \* obs_module_load and its listener goroutine: where each
                \* stands, the loop's port, the ports handed to
                \* ListenAndServe so far, what the last call returned, and
                \* whether the host process is running

vars == <<obsLock, mu, sources, heap, cstr, volm, pc, loc, out, cb, hist,
          quota, lastCreated, lastSent, srv>>

(***************************************************************************)
(* Helpers                                                                 *)
(***************************************************************************)
Kinds == <<"Magnitude", "Peak", "InputPeak">>

\* math.Max on the two operands, each evaluated once
MathMax[a \in Int, b \in Int] == IF a >= b THEN a ELSE b

Max2(a, b) == MathMax[a, b]

\* a mutex whose Lock never waits; with it in place of CanLock the scrapes
\* are no longer serialized
CanLockAlways(m) == TRUE

\* sync.Mutex: Lock proceeds only when nobody holds the mutex
CanLock(m) == m = NoOne

\* delete(c.sources, id)
MapDelete(m, id) == [i \in (DOMAIN m) \ {id} |-> m[i]]

\* c.sources[id] = src
MapPut(m, id, h) == [i \in (DOMAIN m) \cup {id} |-> IF i = id THEN h ELSE m[i]]

\* obs_source_get_name: the display name of a source
NameOf(id) == <<"name", id>>

\* the three float arrays one callback invocation carries (channels 0 and 1
\* of MAX_AUDIO_CHANNELS); genSlice widens each float to float64 unchanged
Frames ==
  << [Magnitude |-> <<5, 1>>, Peak |-> <<2, 6>>, InputPeak |-> <<3, 3>>],
     [Magnitude |-> <<1, 4>>, Peak |-> <<7, 2>>, InputPeak |-> <<4, 0>>] >>

\* float64(*(*C.float)(...)) for channel n of one array
genSlice(arr, n) == arr[n + 1]

\* the value store number k (0..5) of a callback writes: channel k \div 3,
\* kind k % 3, in the order of the loop body
StoreCh(k) == k \div 3
StoreKind(k) == Kinds[(k % 3) + 1]
StoreVal(fr, k) ==
  CASE k % 3 = 0 -> genSlice(Frames[fr].Magnitude, StoreCh(k))
    [] k % 3 = 1 -> genSlice(Frames[fr].Peak, StoreCh(k))
    [] OTHER     -> genSlice(Frames[fr].InputPeak, StoreCh(k))

\* a [circBufSamples]float64 as `var` leaves it, all zero; with it in place of
\* FreshBuf an empty sampler reads as a real level of 0
ZeroBuf == [n \in 0..(circBufSamples - 1) |-> 0]

\* a [circBufSamples]float64 filled with negative infinity
FreshBuf == [n \in 0..(circBufSamples - 1) |-> NegInf]

\* the Source the creation branch inserts
NewSource(id, cid, vm) ==
  [ID |-> id, Name |-> NameOf(id), CID |-> cid, VolMeter |-> vm,
   Channels |-> SrcChannels, mu |-> NoOne, Pos |-> 0,
   Magnitude |-> [c \in 0..(SrcChannels - 1) |-> FreshBuf],
   Peak      |-> [c \in 0..(SrcChannels - 1) |-> FreshBuf],
   InputPeak |-> [c \in 0..(SrcChannels - 1) |-> FreshBuf]]

\* the inner loop `for n := 0; n < circBufSamples; n++ { x = math.Max(x, buf[n]) }`
RECURSIVE MaxUpTo(_, _)
MaxUpTo(buf, n) == IF n = 0 THEN NegInf ELSE Max2(MaxUpTo(buf, n - 1), buf[n - 1])

ReduceMax(buf) == MaxUpTo(buf, circBufSamples)

\* a cursor that stops at the last slot instead of wrapping; with it in place
\* of NextPos the oldest slots are never overwritten
NextPosNoWrap(p) == IF p + 1 < circBufSamples THEN p + 1 ELSE p

\* src.Pos = (src.Pos + 1) % circBufSamples
NextPos(p) == (p + 1) % circBufSamples

\* a sample sent on ch: descriptor, value type, label values, value; obj is the
\* handle of the Source it was reduced from (Nil for every other sample)
Sample(desc, vt, lv, v, obj) == [desc |-> desc, vt |-> vt, lv |-> lv, v |-> v, obj |-> obj]

\* a nil pointer
Nil == <<Junk, 0>>

\* the object behind a handle
Obj(h) == heap[h[1]][h[2]]

InitLoc ==
  [seenSources |-> {}, enumN |-> 0, src |-> Nil, chn |-> 0,
   magnitude |-> NegInf, peak |-> NegInf, inputPeak |-> NegInf,
   del |-> Nil, created |-> {}, failed |-> {}, prev |-> {}, stamp |-> 0]

\* an engine thread outside the callback; last records how its previous
\* invocation returned: "unknown" (the log line of main.go:479) or "stored";
\* vm is the volmeter whose update the thread is delivering
IdleCb ==
  [pc |-> "idle", id |-> Junk, src |-> Nil, fr |-> 1, k |-> 0, last |-> "none",
   vm |-> Nil]

(***************************************************************************)
(* What the engine reports to a scrape (read-only, engine-owned)           *)
(***************************************************************************)
\* obs_get_active_fps, obs_get_average_frame_time_ns, obs_get_total_frames,
\* obs_get_lagged_frames, video_output_get_total_frames / _skipped_frames
EngineGlobals ==
  [active_fps |-> 60, average_frame_time_ns |-> 900, total_frames |-> 1000,
   lagged_frames |-> 3, video_total_frames |-> 990, video_skipped_frames |-> 4]

\* what obs_enum_outputs yields, with the fields Collect reads
EngineOutputs ==
  << [id |-> "rtmp_output", name |-> "stream", display |-> "Streaming",
      active |-> TRUE, total_bytes |-> 500, frames_dropped |-> 2,
      total_frames |-> 100, width |-> 1920, height |-> 1080,
      congestion |-> [num |-> 1, den |-> 10], connect_time_ms |-> 250,
      reconnecting |-> FALSE] >>

\* what obs_enum_encoders yields
EngineEncoders ==
  << [id |-> "ffmpeg_aac", name |-> "aac1", display |-> "AAC", codec |-> "aac",
      audio |-> TRUE, active |-> TRUE, width |-> 0, height |-> 0,
      sample_rate |-> 48000],
     [id |-> "obs_x264", name |-> "h264", display |-> "x264", codec |-> "h264",
      audio |-> FALSE, active |-> FALSE, width |-> 1280, height |-> 720,
      sample_rate |-> 0] >>

\* the loop bounds of the listener goroutine: for port := 9407; port < 9500
FirstPort == 9407

PortLimit == 9500

\* nothing has been returned by ListenAndServe yet
NoReturn == [port |-> 0, err |-> "none"]

\* the plugin loaded, its goroutine serving on the first port
Listening ==
  [load |-> "returned", go |-> "serving", port |-> FirstPort,
   tried |-> <<FirstPort>>, last |-> NoReturn, host |-> "running"]

\* the state NewMetricCollector leaves, with what the environment will do
Init ==
  /\ srv = Listening
  /\ obsLock = NoOne
  /\ mu = NoOne
  /\ sources = [i \in {} |-> 0]
  /\ heap = [i \in SourceIds |-> <<>>]
  /\ cstr = [i \in SourceIds |-> <<>>]
  /\ volm = [i \in SourceIds |-> <<>>]
  /\ pc = [s \in Scrapers |-> "idle"]
  /\ loc = [s \in Scrapers |-> InitLoc]
  /\ out = [s \in Scrapers |-> <<>>]
  /\ cb = [t \in Threads |-> IdleCb]
  /\ hist = [i \in SourceIds |-> <<>>]
  /\ quota = [calls |-> MaxCalls, faults |-> MaxFaults, frames |-> {1},
              threads |-> {"t1"}, outputs |-> EngineOutputs,
              encoders |-> EngineEncoders]
  /\ lastCreated = {}
  /\ lastSent = [x \in {} |-> 0]

\* obsBoolMetric
obsBoolMetric(b) == IF b THEN 1 ELSE 0

\* the conversion float64(x) of an engine integer: exact for |x| <= 2^53, which
\* holds every integer of the model
float64(x) == x

\* Prometheus metrics namespace and metric subsystems
namespace == "obs"
encoderSubsystem == "encoder"
globalSubsystem == "global"
outputSubsystem == "output"
sourceSubsystem == "source"

\* prometheus.BuildFQName: the non-empty parts joined by "_", "" for no name
BuildFQName(ns, subsystem, name) ==
  IF name = "" THEN ""
  ELSE (IF ns = "" THEN "" ELSE ns \o "_")
       \o (IF subsystem = "" THEN "" ELSE subsystem \o "_") \o name

\* the descriptors NewMetricCollector builds: fully qualified name and
\* variable labels of each field
Descs ==
  [ActiveFPS |-> [fq |-> BuildFQName(namespace, globalSubsystem, "active_fps"), labels |-> <<>>],
   AverageFrameTimeNS |->
     [fq |-> BuildFQName(namespace, globalSubsystem, "average_frame_time_ns"), labels |-> <<>>],
   TotalFrames |-> [fq |-> BuildFQName(namespace, globalSubsystem, "frames_total"), labels |-> <<>>],
   LaggedFrames |->
     [fq |-> BuildFQName(namespace, globalSubsystem, "lagged_frames_total"), labels |-> <<>>],
   VideoTotalFrames |->
     [fq |-> BuildFQName(namespace, globalSubsystem, "video_frames_total"), labels |-> <<>>],
   VideoSkippedFrames |->
     [fq |-> BuildFQName(namespace, globalSubsystem, "video_skipped_frames_total"), labels |-> <<>>],
   InfoPerOutput |->
     [fq |-> BuildFQName(namespace, outputSubsystem, "info"),
      labels |-> <<"output_id", "output_name", "output_display_name">>],
   OutputActivePerOutput |->
     [fq |-> BuildFQName(namespace, outputSubsystem, "active"),
      labels |-> <<"output_id", "output_name">>],
   TotalBytesPerOutput |->
     [fq |-> BuildFQName(namespace, outputSubsystem, "bytes_total"),
      labels |-> <<"output_id", "output_name">>],
   DroppedFramesPerOutput |->
     [fq |-> BuildFQName(namespace, outputSubsystem, "dropped_frames_total"),
      labels |-> <<"output_id", "output_name">>],
   TotalFramesPerOutput |->
     [fq |-> BuildFQName(namespace, outputSubsystem, "frames"),
      labels |-> <<"output_id", "output_name">>],
   WidthPerOutput |->
     [fq |-> BuildFQName(namespace, outputSubsystem, "video_width"),
      labels |-> <<"output_id", "output_name">>],
   HeightPerOutput |->
     [fq |-> BuildFQName(namespace, outputSubsystem, "video_height"),
      labels |-> <<"output_id", "output_name">>],
   CongestionPerOutput |->
     [fq |-> BuildFQName(namespace, outputSubsystem, "congestion"),
      labels |-> <<"output_id", "output_name">>],
   ConnectTimePerOutput |->
     [fq |-> BuildFQName(namespace, outputSubsystem, "connect_time_seconds"),
      labels |-> <<"output_id", "output_name">>],
   ReconnectingPerOutput |->
     [fq |-> BuildFQName(namespace, outputSubsystem, "reconnecting"),
      labels |-> <<"output_id", "output_name">>],
   InfoPerEncoder |->
     [fq |-> BuildFQName(namespace, encoderSubsystem, "info"),
      labels |-> <<"encoder_id", "encoder_name", "encoder_display_name", "encoder_codec">>],
   WidthPerEncoder |->
     [fq |-> BuildFQName(namespace, encoderSubsystem, "width"),
      labels |-> <<"encoder_id", "encoder_name">>],
   HeightPerEncoder |->
     [fq |-> BuildFQName(namespace, encoderSubsystem, "height"),
      labels |-> <<"encoder_id", "encoder_name">>],
   SampleRatePerEncoder |->
     [fq |-> BuildFQName(namespace, encoderSubsystem, "sample_rate"),
      labels |-> <<"encoder_id", "encoder_name">>],
   ActivePerEncoder |->
     [fq |-> BuildFQName(namespace, globalSubsystem, "active"),
      labels |-> <<"encoder_id", "encoder_name">>],
   MagnitudePerSourceChannel |->
     [fq |-> BuildFQName(namespace, sourceSubsystem, "channel_magnitude"),
      labels |-> <<"source_id", "source_name", "channel_id">>],
   PeakPerSourceChannel |->
     [fq |-> BuildFQName(namespace, sourceSubsystem, "channel_peak"),
      labels |-> <<"source_id", "source_name", "channel_id">>],
   InputPeakPerSourceChannel |->
     [fq |-> BuildFQName(namespace, sourceSubsystem, "input_peak"),
      labels |-> <<"source_id", "source_name", "channel_id">>]]

\* the descriptors Describe sends, in order
DescribeOrder ==
  << "ActiveFPS", "AverageFrameTimeNS", "TotalFrames", "LaggedFrames",
     "VideoTotalFrames", "VideoSkippedFrames",
     "OutputActivePerOutput", "TotalBytesPerOutput", "DroppedFramesPerOutput",
     "TotalFramesPerOutput", "WidthPerOutput", "HeightPerOutput",
     "CongestionPerOutput", "ConnectTimePerOutput", "ReconnectingPerOutput",
     "InfoPerEncoder", "WidthPerEncoder", "HeightPerEncoder",
     "SampleRatePerEncoder", "ActivePerEncoder",
     "MagnitudePerSourceChannel", "PeakPerSourceChannel",
     "InputPeakPerSourceChannel" >>

\* the six sends that open Collect
GlobalSamples ==
  << Sample("ActiveFPS", "gauge", <<>>, float64(EngineGlobals.active_fps), Nil),
     Sample("AverageFrameTimeNS", "gauge", <<>>, float64(EngineGlobals.average_frame_time_ns), Nil),
     Sample("TotalFrames", "counter", <<>>, float64(EngineGlobals.total_frames), Nil),
     Sample("LaggedFrames", "counter", <<>>, float64(EngineGlobals.lagged_frames), Nil),
     Sample("VideoTotalFrames", "counter", <<>>, float64(EngineGlobals.video_total_frames), Nil),
     Sample("VideoSkippedFrames", "counter", <<>>, float64(EngineGlobals.video_skipped_frames), Nil) >>

\* an enumOutputsCB that reports the connect time as the engine gives it, in
\* milliseconds; with it in place of OutputSamples connect_time_seconds is
\* a thousand times too large
OutputSamplesMillis(o) ==
  << Sample("InfoPerOutput", "gauge", <<o.id, o.name, o.display>>, 1, Nil),
     Sample("OutputActivePerOutput", "gauge", <<o.id, o.name>>, obsBoolMetric(o.active), Nil),
     Sample("TotalBytesPerOutput", "counter", <<o.id, o.name>>, float64(o.total_bytes), Nil),
     Sample("DroppedFramesPerOutput", "counter", <<o.id, o.name>>, float64(o.frames_dropped), Nil),
     Sample("TotalFramesPerOutput", "gauge", <<o.id, o.name>>, float64(o.total_frames), Nil),
     Sample("WidthPerOutput", "gauge", <<o.id, o.name>>, float64(o.width), Nil),
     Sample("HeightPerOutput", "gauge", <<o.id, o.name>>, float64(o.height), Nil),
     Sample("CongestionPerOutput", "gauge", <<o.id, o.name>>, float64(o.congestion), Nil),
     Sample("ConnectTimePerOutput", "gauge", <<o.id, o.name>>,
            [num |-> float64(o.connect_time_ms), den |-> 1], Nil),
     Sample("ReconnectingPerOutput", "gauge", <<o.id, o.name>>, obsBoolMetric(o.reconnecting), Nil) >>

\* the sends of one enumOutputsCB call
OutputSamples(o) ==
  << Sample("InfoPerOutput", "gauge", <<o.id, o.name, o.display>>, 1, Nil),
     Sample("OutputActivePerOutput", "gauge", <<o.id, o.name>>, obsBoolMetric(o.active), Nil),
     Sample("TotalBytesPerOutput", "counter", <<o.id, o.name>>, float64(o.total_bytes), Nil),
     Sample("DroppedFramesPerOutput", "counter", <<o.id, o.name>>, float64(o.frames_dropped), Nil),
     Sample("TotalFramesPerOutput", "gauge", <<o.id, o.name>>, float64(o.total_frames), Nil),
     Sample("WidthPerOutput", "gauge", <<o.id, o.name>>, float64(o.width), Nil),
     Sample("HeightPerOutput", "gauge", <<o.id, o.name>>, float64(o.height), Nil),
     Sample("CongestionPerOutput", "gauge", <<o.id, o.name>>, float64(o.congestion), Nil),
     Sample("ConnectTimePerOutput", "gauge", <<o.id, o.name>>,
            [num |-> float64(o.connect_time_ms), den |-> 1000], Nil),
     Sample("ReconnectingPerOutput", "gauge", <<o.id, o.name>>, obsBoolMetric(o.reconnecting), Nil) >>

\* an enumEncodersCB that sends only the fields meaningful for the encoder's
\* type; with it in place of EncoderSamples an encoder has three dimension
\* series less or two less
EncoderSamplesApplicable(e) ==
  << Sample("InfoPerEncoder", "gauge", <<e.id, e.name, e.display, e.codec>>, 1, Nil),
     Sample("ActivePerEncoder", "gauge", <<e.id, e.name>>, obsBoolMetric(e.active), Nil) >>
  \o (IF e.audio
      THEN << Sample("SampleRatePerEncoder", "gauge", <<e.id, e.name>>, e.sample_rate, Nil) >>
      ELSE << Sample("WidthPerEncoder", "gauge", <<e.id, e.name>>, e.width, Nil),
              Sample("HeightPerEncoder", "gauge", <<e.id, e.name>>, e.height, Nil) >>)

\* the sends of one enumEncodersCB call
EncoderSamples(e) ==
  << Sample("InfoPerEncoder", "gauge", <<e.id, e.name, e.display, e.codec>>, 1, Nil),
     Sample("ActivePerEncoder", "gauge", <<e.id, e.name>>, obsBoolMetric(e.active), Nil) >>
  \o (IF e.audio
      THEN << Sample("WidthPerEncoder", "gauge", <<e.id, e.name>>, 0, Nil),
              Sample("HeightPerEncoder", "gauge", <<e.id, e.name>>, 0, Nil),
              Sample("SampleRatePerEncoder", "gauge", <<e.id, e.name>>, float64(e.sample_rate), Nil) >>
      ELSE << Sample("WidthPerEncoder", "gauge", <<e.id, e.name>>, float64(e.width), Nil),
              Sample("HeightPerEncoder", "gauge", <<e.id, e.name>>, float64(e.height), Nil),
              Sample("SampleRatePerEncoder", "gauge", <<e.id, e.name>>, 0, Nil) >>)

RECURSIVE FlatMap(_, _)
\* the samples of an enumeration: the callback's sends for each element in turn
FlatMap(seq, which) ==
  IF seq = <<>> THEN <<>>
  ELSE (IF which = "output" THEN OutputSamples(Head(seq)) ELSE EncoderSamples(Head(seq)))
       \o FlatMap(Tail(seq), which)

\* the three sends that close one `for chn` iteration of the reduce branch
\* (fmt.Sprintf("%d", chn) is the channel label)
SourceSamples(src, h, chn, magnitude, peak, inputPeak) ==
  << Sample("MagnitudePerSourceChannel", "gauge", <<src.ID, src.Name, chn>>, magnitude, h),
     Sample("PeakPerSourceChannel", "gauge", <<src.ID, src.Name, chn>>, peak, h),
     Sample("InputPeakPerSourceChannel", "gauge", <<src.ID, src.Name, chn>>, inputPeak, h) >>

(***************************************************************************)
(* Describe                                                                *)
(***************************************************************************)
\* obsLock.Lock() at the top of Describe
DescribeLock(s) ==
  /\ pc[s] = "idle"
  /\ CanLock(obsLock)
  /\ obsLock' = s
  /\ pc' = [pc EXCEPT ![s] = "describe"]
  /\ out' = [out EXCEPT ![s] = <<>>]
  /\ UNCHANGED <<srv, mu, sources, heap, cstr, volm, loc, cb, hist, quota, lastCreated, lastSent>>

\* the 23 sends
DescribeSend(s) ==
  /\ pc[s] = "describe"
  /\ out' = [out EXCEPT ![s] = DescribeOrder]
  /\ pc' = [pc EXCEPT ![s] = "described"]
  /\ UNCHANGED <<srv, obsLock, mu, sources, heap, cstr, volm, loc, cb, hist, quota, lastCreated, lastSent>>

\* Describe returns; the deferred obsLock.Unlock() runs
DescribeReturn(s) ==
  /\ pc[s] = "described"
  /\ obsLock' = NoOne
  /\ pc' = [pc EXCEPT ![s] = "idle"]
  /\ out' = [out EXCEPT ![s] = <<>>]
  /\ UNCHANGED <<srv, mu, sources, heap, cstr, volm, loc, cb, hist, quota, lastCreated, lastSent>>

(***************************************************************************)
(* Collect                                                                 *)
(***************************************************************************)
\* obsLock.Lock() at the top of Collect
CollectLock(s) ==
  /\ pc[s] = "idle"
  /\ quota.calls > 0
  /\ CanLock(obsLock)
  /\ obsLock' = s
  /\ quota' = [quota EXCEPT !.calls = @ - 1]
  /\ pc' = [pc EXCEPT ![s] = "globals"]
  /\ out' = [out EXCEPT ![s] = <<>>]
  /\ loc' = [loc EXCEPT ![s] = [InitLoc EXCEPT !.prev = lastCreated]]
  /\ UNCHANGED <<srv, mu, sources, heap, cstr, volm, cb, hist, lastCreated, lastSent>>

\* the six global scalars
CollectGlobals(s) ==
  /\ pc[s] = "globals"
  /\ out' = [out EXCEPT ![s] = @ \o GlobalSamples]
  /\ pc' = [pc EXCEPT ![s] = "lockmu"]
  /\ UNCHANGED <<srv, obsLock, mu, sources, heap, cstr, volm, loc, cb, hist, quota, lastCreated, lastSent>>

\* c.mu.Lock(); seenSources := map[string]bool{}
CollectMuLock(s) ==
  /\ pc[s] = "lockmu"
  /\ CanLock(mu)
  /\ mu' = s
  /\ loc' = [loc EXCEPT ![s].seenSources = {}]
  /\ pc' = [pc EXCEPT ![s] = "enum"]
  /\ UNCHANGED <<srv, obsLock, sources, heap, cstr, volm, out, cb, hist, quota, lastCreated, lastSent>>

\* the engine may call enumSourcesCB once more in this pass
CanYield(s) == pc[s] = "enum" /\ loc[s].enumN < MaxEnum

\* enumSourcesCB, `if seenSources[id] { return true }`
EnumDuplicate(s, id) ==
  /\ CanYield(s)
  /\ id \in loc[s].seenSources
  /\ loc' = [loc EXCEPT ![s].enumN = @ + 1]
  /\ UNCHANGED <<srv, obsLock, mu, sources, heap, cstr, volm, pc, out, cb, hist, quota, lastCreated, lastSent>>

\* a creation branch that falls through into the reduce branch; with it in
\* place of EnumCreate a tracker is summarised in the scrape that creates it
EnumCreateAndReduce(s, id) ==
  /\ CanYield(s)
  /\ id \notin loc[s].seenSources
  /\ id \notin DOMAIN sources
  /\ cstr' = [cstr EXCEPT ![id] = Append(@, [frees |-> 0])]
  /\ volm' = [volm EXCEPT ![id] = Append(@, [cb |-> <<id, Len(cstr[id]) + 1>>,
                                             destroys |-> 0])]
  /\ heap' = [heap EXCEPT ![id] = Append(@, NewSource(id, <<id, Len(cstr[id]) + 1>>,
                                                      <<id, Len(volm[id]) + 1>>))]
  /\ hist' = [hist EXCEPT ![id] = Append(@, [k \in 0..(3 * SrcChannels - 1) |-> <<>>])]
  /\ sources' = MapPut(sources, id, <<id, Len(heap[id]) + 1>>)
  /\ loc' = [loc EXCEPT ![s].seenSources = @ \cup {id}, ![s].enumN = @ + 1,
                        ![s].created = @ \cup {id},
                        ![s].src = <<id, Len(heap[id]) + 1>>, ![s].chn = 0]
  /\ pc' = [pc EXCEPT ![s] = "reduce"]
  /\ UNCHANGED <<srv, obsLock, mu, out, cb, quota, lastCreated, lastSent>>

\* enumSourcesCB, creation branch, every engine call succeeding
EnumCreate(s, id) ==
  /\ CanYield(s)
  /\ id \notin loc[s].seenSources
  /\ id \notin DOMAIN sources
  /\ cstr' = [cstr EXCEPT ![id] = Append(@, [frees |-> 0])]
  /\ volm' = [volm EXCEPT ![id] = Append(@, [cb |-> <<id, Len(cstr[id]) + 1>>,
                                             destroys |-> 0])]
  /\ heap' = [heap EXCEPT ![id] = Append(@, NewSource(id, <<id, Len(cstr[id]) + 1>>,
                                                      <<id, Len(volm[id]) + 1>>))]
  /\ hist' = [hist EXCEPT ![id] = Append(@, [k \in 0..(3 * SrcChannels - 1) |-> <<>>])]
  /\ sources' = MapPut(sources, id, <<id, Len(heap[id]) + 1>>)
  /\ loc' = [loc EXCEPT ![s].seenSources = @ \cup {id}, ![s].enumN = @ + 1,
                        ![s].created = @ \cup {id}]
  /\ UNCHANGED <<srv, obsLock, mu, pc, out, cb, quota, lastCreated, lastSent>>

\* a creation failure that ends the enumeration pass; with it in place of
\* EnumCreateNil the sources after the failing one are not visited
EnumCreateNilAbort(s, id) ==
  /\ CanYield(s)
  /\ id \notin loc[s].seenSources
  /\ id \notin DOMAIN sources
  /\ quota.faults > 0
  /\ quota' = [quota EXCEPT !.faults = @ - 1]
  /\ cstr' = [cstr EXCEPT ![id] = Append(@, [frees |-> 0])]
  /\ loc' = [loc EXCEPT ![s].seenSources = @ \cup {id}, ![s].enumN = @ + 1,
                        ![s].failed = @ \cup {id}]
  /\ pc' = [pc EXCEPT ![s] = "teardown"]
  /\ UNCHANGED <<srv, obsLock, mu, sources, heap, volm, out, cb, hist, lastCreated, lastSent>>

\* enumSourcesCB, creation branch, obs_volmeter_create returning nil
EnumCreateNil(s, id) ==
  /\ CanYield(s)
  /\ id \notin loc[s].seenSources
  /\ id \notin DOMAIN sources
  /\ quota.faults > 0
  /\ quota' = [quota EXCEPT !.faults = @ - 1]
  /\ cstr' = [cstr EXCEPT ![id] = Append(@, [frees |-> 0])]
  /\ loc' = [loc EXCEPT ![s].seenSources = @ \cup {id}, ![s].enumN = @ + 1,
                        ![s].failed = @ \cup {id}]
  /\ UNCHANGED <<srv, obsLock, mu, sources, heap, volm, pc, out, cb, hist, lastCreated, lastSent>>

\* enumSourcesCB, creation branch, obs_volmeter_attach_source refusing:
\* the volmeter is destroyed again, no callback was registered on it
EnumCreateAttachFail(s, id) ==
  /\ CanYield(s)
  /\ id \notin loc[s].seenSources
  /\ id \notin DOMAIN sources
  /\ quota.faults > 0
  /\ quota' = [quota EXCEPT !.faults = @ - 1]
  /\ cstr' = [cstr EXCEPT ![id] = Append(@, [frees |-> 0])]
  /\ volm' = [volm EXCEPT ![id] = Append(@, [cb |-> Nil, destroys |-> 1])]
  /\ loc' = [loc EXCEPT ![s].seenSources = @ \cup {id}, ![s].enumN = @ + 1,
                        ![s].failed = @ \cup {id}]
  /\ UNCHANGED <<srv, obsLock, mu, sources, heap, pc, out, cb, hist, lastCreated, lastSent>>

\* a reduce branch entered without consulting or marking seenSources; with it
\* in place of EnumTracked a source yielded twice is summarised twice
EnumTrackedUnmarked(s, id) ==
  /\ CanYield(s)
  /\ id \in DOMAIN sources
  /\ loc' = [loc EXCEPT ![s].enumN = @ + 1, ![s].src = sources[id], ![s].chn = 0]
  /\ pc' = [pc EXCEPT ![s] = "reduce"]
  /\ UNCHANGED <<srv, obsLock, mu, sources, heap, cstr, volm, out, cb, hist, quota, lastCreated, lastSent>>

\* enumSourcesCB for an id already in the registry: enter the reduce branch
EnumTracked(s, id) ==
  /\ CanYield(s)
  /\ id \notin loc[s].seenSources
  /\ id \in DOMAIN sources
  /\ loc' = [loc EXCEPT ![s].seenSources = @ \cup {id}, ![s].enumN = @ + 1,
                        ![s].src = sources[id], ![s].chn = 0]
  /\ pc' = [pc EXCEPT ![s] = "reduce"]
  /\ UNCHANGED <<srv, obsLock, mu, sources, heap, cstr, volm, out, cb, hist, quota, lastCreated, lastSent>>

RECURSIVE SumLens(_, _)
SumLens(hs, k) == IF k = 0 THEN 0 ELSE Len(hs[k - 1]) + SumLens(hs, k - 1)

\* the number of stores callbacks have made so far into the buffers of Source h
StoresOn(h) == SumLens(hist[h[1]][h[2]], 3 * SrcChannels)

\* a reduction that clears the buffers it has read; with it in place of
\* Reduce a scrape consumes the samples
ReduceAndReset(s) ==
  /\ pc[s] = "reduce"
  /\ LET src == Obj(loc[s].src)
         chn == loc[s].chn
     IN /\ loc' = [loc EXCEPT ![s].magnitude = ReduceMax(src.Magnitude[chn]),
                              ![s].peak = ReduceMax(src.Peak[chn]),
                              ![s].inputPeak = ReduceMax(src.InputPeak[chn]),
                              ![s].stamp = StoresOn(loc[s].src)]
        /\ heap' = [heap EXCEPT ![loc[s].src[1]][loc[s].src[2]] =
                      [@ EXCEPT !.Magnitude[chn] = FreshBuf,
                                !.Peak[chn] = FreshBuf,
                                !.InputPeak[chn] = FreshBuf]]
  /\ pc' = [pc EXCEPT ![s] = "emit"]
  /\ UNCHANGED <<srv, obsLock, mu, sources, cstr, volm, out, cb, hist, quota, lastCreated, lastSent>>

\* one `for chn` iteration up to the sends: the three maxima over the ring
\* buffers of channel chn, read without src.mu
Reduce(s) ==
  /\ pc[s] = "reduce"
  /\ LET src == Obj(loc[s].src)
         chn == loc[s].chn
     IN loc' = [loc EXCEPT ![s].magnitude = ReduceMax(src.Magnitude[chn]),
                           ![s].peak = ReduceMax(src.Peak[chn]),
                           ![s].inputPeak = ReduceMax(src.InputPeak[chn]),
                           ![s].stamp = StoresOn(loc[s].src)]
  /\ pc' = [pc EXCEPT ![s] = "emit"]
  /\ UNCHANGED <<srv, obsLock, mu, sources, heap, cstr, volm, out, cb, hist, quota, lastCreated, lastSent>>

\* the three sends of the iteration, then chn++ or return to the engine
Emit(s) ==
  /\ pc[s] = "emit"
  /\ out' = [out EXCEPT ![s] = @ \o SourceSamples(Obj(loc[s].src), loc[s].src, loc[s].chn,
                                       loc[s].magnitude, loc[s].peak, loc[s].inputPeak)]
  /\ loc' = [loc EXCEPT ![s].chn = @ + 1, ![s].stamp = 0]
  /\ pc' = [pc EXCEPT ![s] = IF loc[s].chn + 1 < Obj(loc[s].src).Channels
                             THEN "reduce" ELSE "enum"]
  /\ lastSent' = IF loc[s].stamp = StoresOn(loc[s].src)
                 THEN MapPut(lastSent, <<loc[s].src, loc[s].chn>>,
                             [magnitude |-> loc[s].magnitude, peak |-> loc[s].peak,
                              inputPeak |-> loc[s].inputPeak])
                 ELSE MapDelete(lastSent, <<loc[s].src, loc[s].chn>>)
  /\ UNCHANGED <<srv, obsLock, mu, sources, heap, cstr, volm, cb, hist, quota, lastCreated>>

\* obs_enum_sources returns
EnumDone(s) ==
  /\ pc[s] = "enum"
  /\ pc' = [pc EXCEPT ![s] = "teardown"]
  /\ UNCHANGED <<srv, obsLock, mu, sources, heap, cstr, volm, loc, out, cb, hist, quota, lastCreated, lastSent>>

\* a teardown loop that finds nothing to delete; with it in place of StaleIds
\* trackers of sources that are gone stay in the registry
StaleIdsNone(srcs, seen) == {}

\* the ids the teardown loop still has to delete: `if seenSources[id] { continue }`
StaleIds(srcs, seen) == (DOMAIN srcs) \ seen

\* teardown loop body, first half: delete(c.sources, id); C.free(s.CID)
TeardownFree(s, id) ==
  /\ pc[s] = "teardown"
  /\ id \in StaleIds(sources, loc[s].seenSources)
  /\ sources' = MapDelete(sources, id)
  /\ LET cid == Obj(sources[id]).CID
     IN cstr' = [cstr EXCEPT ![cid[1]][cid[2]].frees = @ + 1]
  /\ loc' = [loc EXCEPT ![s].del = sources[id]]
  /\ pc' = [pc EXCEPT ![s] = "destroy"]
  /\ UNCHANGED <<srv, obsLock, mu, heap, volm, out, cb, hist, quota, lastCreated, lastSent>>

\* a teardown that forgets obs_volmeter_destroy; with it in place of
\* TeardownDestroy the volmeter of a removed Source is never released
TeardownDestroySkip(s) ==
  /\ pc[s] = "destroy"
  /\ loc' = [loc EXCEPT ![s].del = Nil]
  /\ pc' = [pc EXCEPT ![s] = "teardown"]
  /\ UNCHANGED <<srv, obsLock, mu, sources, heap, cstr, volm, out, cb, hist, quota, lastCreated, lastSent>>

\* teardown loop body, second half: if s.VolMeter != nil { obs_volmeter_destroy }
TeardownDestroy(s) ==
  /\ pc[s] = "destroy"
  /\ LET vm == Obj(loc[s].del).VolMeter
     IN volm' = IF vm # Nil
                THEN [volm EXCEPT ![vm[1]][vm[2]].destroys = @ + 1]
                ELSE volm
  /\ loc' = [loc EXCEPT ![s].del = Nil]
  /\ pc' = [pc EXCEPT ![s] = "teardown"]
  /\ UNCHANGED <<srv, obsLock, mu, sources, heap, cstr, out, cb, hist, quota, lastCreated, lastSent>>

\* the teardown loop is over; c.mu.Unlock()
CollectMuUnlock(s) ==
  /\ pc[s] = "teardown"
  /\ StaleIds(sources, loc[s].seenSources) = {}
  /\ mu' = NoOne
  /\ lastCreated' = loc[s].created
  /\ pc' = [pc EXCEPT ![s] = "outputs"]
  /\ UNCHANGED <<srv, obsLock, sources, heap, cstr, volm, loc, out, cb, hist, quota, lastSent>>

\* an output enumeration whose samples come out ahead of what the scrape
\* has sent so far; with it in place of CollectOutputs the phases are mixed
CollectOutputsAhead(s) ==
  /\ pc[s] = "outputs"
  /\ out' = [out EXCEPT ![s] = FlatMap(quota.outputs, "output") \o @]
  /\ pc' = [pc EXCEPT ![s] = "encoders"]
  /\ UNCHANGED <<srv, obsLock, mu, sources, heap, cstr, volm, loc, cb, hist, quota, lastCreated, lastSent>>

\* obs_enum_outputs with enumOutputsCB
CollectOutputs(s) ==
  /\ pc[s] = "outputs"
  /\ out' = [out EXCEPT ![s] = @ \o FlatMap(quota.outputs, "output")]
  /\ pc' = [pc EXCEPT ![s] = "encoders"]
  /\ UNCHANGED <<srv, obsLock, mu, sources, heap, cstr, volm, loc, cb, hist, quota, lastCreated, lastSent>>

\* obs_enum_encoders with enumEncodersCB
CollectEncoders(s) ==
  /\ pc[s] = "encoders"
  /\ out' = [out EXCEPT ![s] = @ \o FlatMap(quota.encoders, "encoder")]
  /\ pc' = [pc EXCEPT ![s] = "collected"]
  /\ UNCHANGED <<srv, obsLock, mu, sources, heap, cstr, volm, loc, cb, hist, quota, lastCreated, lastSent>>

\* Collect returns; the deferred obsLock.Unlock() runs
CollectReturn(s) ==
  /\ pc[s] = "collected"
  /\ obsLock' = NoOne
  /\ pc' = [pc EXCEPT ![s] = "idle"]
  /\ out' = [out EXCEPT ![s] = <<>>]
  /\ loc' = [loc EXCEPT ![s] = InitLoc]
  /\ UNCHANGED <<srv, mu, sources, heap, cstr, volm, cb, hist, quota, lastCreated, lastSent>>


(***************************************************************************)
(* mc_volmeter_updated_go                                                  *)
(***************************************************************************)
\* the volmeters the engine may deliver an update for: created, not yet
\* destroyed, with mc_volmeter_updated registered by obs_volmeter_add_callback
LiveVolmeters ==
  {v \in UNION {{<<i, n>> : n \in 1..Len(volm[i])} : i \in SourceIds} :
     /\ volm[v[1]][v[2]].destroys = 0
     /\ volm[v[1]][v[2]].cb # Nil}

\* the identifier buffer registered on volmeter v
CbArg(v) == volm[v[1]][v[2]].cb

\* the engine calls the callback with f = the CID registered on volmeter v;
\* id := C.GoString((*C.char)(f)) reads a live buffer
CbInvoke(t, v, fr) ==
  /\ cb[t].pc = "idle"
  /\ t \in quota.threads
  /\ quota.calls > 0
  /\ v \in LiveVolmeters
  /\ fr \in quota.frames
  /\ cstr[CbArg(v)[1]][CbArg(v)[2]].frees = 0
  /\ cb' = [cb EXCEPT ![t] = [IdleCb EXCEPT !.pc = "lock", !.id = CbArg(v)[1],
                                            !.fr = fr, !.vm = v]]
  /\ quota' = [quota EXCEPT !.calls = @ - 1]
  /\ UNCHANGED <<srv, obsLock, mu, sources, heap, cstr, volm, pc, loc, out, hist, lastCreated, lastSent>>

\* the same call when the teardown loop has already freed the buffer and not
\* yet destroyed the volmeter: C.GoString reads freed memory, which yields
\* any string, or faults
CbInvokeFreed(t, v, fr, id) ==
  /\ cb[t].pc = "idle"
  /\ t \in quota.threads
  /\ quota.calls > 0
  /\ v \in LiveVolmeters
  /\ fr \in quota.frames
  /\ cstr[CbArg(v)[1]][CbArg(v)[2]].frees > 0
  /\ cb' = [cb EXCEPT ![t] = [IdleCb EXCEPT
                                !.pc = IF id = "fault" THEN "fault" ELSE "lock",
                                !.id = id, !.fr = fr, !.vm = v]]
  /\ quota' = [quota EXCEPT !.calls = @ - 1]
  /\ UNCHANGED <<srv, obsLock, mu, sources, heap, cstr, volm, pc, loc, out, hist, lastCreated, lastSent>>

\* activeMetricCollector.mu.Lock() at the top of the callback
CbMuLock(t) ==
  /\ cb[t].pc = "lock"
  /\ CanLock(mu)
  /\ mu' = t
  /\ cb' = [cb EXCEPT ![t].pc = "lookup"]
  /\ UNCHANGED <<srv, obsLock, sources, heap, cstr, volm, pc, loc, out, hist, quota, lastCreated, lastSent>>

\* a lookup failure that returns without c.mu.Unlock(); with it in place of
\* CbUnknown the callback leaves the registry lock held
CbUnknownKeepsLock(t) ==
  /\ cb[t].pc = "lookup"
  /\ mu = t
  /\ cb[t].id \notin DOMAIN sources
  /\ mu' = t
  /\ cb' = [cb EXCEPT ![t] = [IdleCb EXCEPT !.last = "unknown"]]
  /\ UNCHANGED <<srv, obsLock, sources, heap, cstr, volm, pc, loc, out, hist, quota, lastCreated, lastSent>>

\* the lookup fails: log; c.mu.Unlock(); return
CbUnknown(t) ==
  /\ cb[t].pc = "lookup"
  /\ mu = t
  /\ cb[t].id \notin DOMAIN sources
  /\ mu' = NoOne
  /\ cb' = [cb EXCEPT ![t] = [IdleCb EXCEPT !.last = "unknown"]]
  /\ UNCHANGED <<srv, obsLock, sources, heap, cstr, volm, pc, loc, out, hist, quota, lastCreated, lastSent>>

\* a successful lookup that goes on without c.mu.Unlock(); with it in place
\* of CbLookup the callback appends while it holds the registry lock
CbLookupKeepsMu(t) ==
  /\ cb[t].pc = "lookup"
  /\ mu = t
  /\ cb[t].id \in DOMAIN sources
  /\ cb' = [cb EXCEPT ![t].src = sources[cb[t].id], ![t].pc = "srclock"]
  /\ UNCHANGED <<srv, obsLock, mu, sources, heap, cstr, volm, pc, loc, out, hist, quota,
                 lastCreated, lastSent>>

\* src, ok := sources[id] succeeds; c.mu.Unlock()
CbLookup(t) ==
  /\ cb[t].pc = "lookup"
  /\ mu = t
  /\ cb[t].id \in DOMAIN sources
  /\ mu' = NoOne
  /\ cb' = [cb EXCEPT ![t].src = sources[cb[t].id], ![t].pc = "srclock"]
  /\ UNCHANGED <<srv, obsLock, sources, heap, cstr, volm, pc, loc, out, hist, quota, lastCreated, lastSent>>

\* an append that does not wait for src.mu; with it in place of CbSrcLock two
\* callbacks for one source run their stores interleaved
CbSrcLockNoWait(t) ==
  /\ cb[t].pc = "srclock"
  /\ heap' = [heap EXCEPT ![cb[t].src[1]][cb[t].src[2]].mu = t]
  /\ cb' = [cb EXCEPT ![t].pc = "store", ![t].k = 0]
  /\ UNCHANGED <<srv, obsLock, mu, sources, cstr, volm, pc, loc, out, hist, quota, lastCreated, lastSent>>

\* src.mu.Lock()
CbSrcLock(t) ==
  /\ cb[t].pc = "srclock"
  /\ CanLock(Obj(cb[t].src).mu)
  /\ heap' = [heap EXCEPT ![cb[t].src[1]][cb[t].src[2]].mu = t]
  /\ cb' = [cb EXCEPT ![t].pc = "store", ![t].k = 0]
  /\ UNCHANGED <<srv, obsLock, mu, sources, cstr, volm, pc, loc, out, hist, quota, lastCreated, lastSent>>

\* the Source after one store of the loop body: buffer kind, channel ch,
\* slot src.Pos
StoreInto(src, kind, ch, v) ==
  CASE kind = "Magnitude" -> [src EXCEPT !.Magnitude[ch][src.Pos] = v]
    [] kind = "Peak"      -> [src EXCEPT !.Peak[ch][src.Pos] = v]
    [] OTHER              -> [src EXCEPT !.InputPeak[ch][src.Pos] = v]

\* one of the 3 * Channels stores of `for ch := 0; ch < src.Channels; ch++`
CbStore(t) ==
  /\ cb[t].pc = "store"
  /\ LET h == cb[t].src
         k == cb[t].k
     IN /\ heap' = [heap EXCEPT ![h[1]][h[2]] = StoreInto(@, StoreKind(k), StoreCh(k),
                                                       StoreVal(cb[t].fr, k))]
        /\ hist' = [hist EXCEPT ![h[1]][h[2]][k] = Append(@, StoreVal(cb[t].fr, k))]
        /\ lastSent' = [x \in {y \in DOMAIN lastSent : y[1] # h} |-> lastSent[x]]
        /\ cb' = [cb EXCEPT ![t].k = k + 1,
                            ![t].pc = IF k + 1 < 3 * Obj(h).Channels
                                      THEN "store" ELSE "advance"]
  /\ UNCHANGED <<srv, obsLock, mu, sources, cstr, volm, pc, loc, out, quota, lastCreated>>

\* a return that skips the deferred src.mu.Unlock(); with it in place of
\* CbAdvance the Source stays locked after the callback
CbAdvanceKeepsSrcLock(t) ==
  /\ cb[t].pc = "advance"
  /\ heap' = [heap EXCEPT ![cb[t].src[1]][cb[t].src[2]].Pos = NextPos(@)]
  /\ cb' = [cb EXCEPT ![t] = [IdleCb EXCEPT !.last = "stored"]]
  /\ UNCHANGED <<srv, obsLock, mu, sources, cstr, volm, pc, loc, out, hist, quota,
                 lastCreated, lastSent>>

\* src.Pos = (src.Pos + 1) % circBufSamples; return (deferred src.mu.Unlock())
CbAdvance(t) ==
  /\ cb[t].pc = "advance"
  /\ heap' = [heap EXCEPT ![cb[t].src[1]][cb[t].src[2]].Pos = NextPos(@),
                          ![cb[t].src[1]][cb[t].src[2]].mu = NoOne]
  /\ cb' = [cb EXCEPT ![t] = [IdleCb EXCEPT !.last = "stored"]]
  /\ UNCHANGED <<srv, obsLock, mu, sources, cstr, volm, pc, loc, out, hist, quota, lastCreated, lastSent>>

(***************************************************************************)
(* Specification                                                           *)
(***************************************************************************)
FrameIds == 1..Len(Frames)

Next ==
  \/ \E s \in Scrapers : DescribeLock(s)
  \/ \E s \in Scrapers : DescribeSend(s)
  \/ \E s \in Scrapers : DescribeReturn(s)
  \/ \E s \in Scrapers : CollectLock(s)
  \/ \E s \in Scrapers : CollectGlobals(s)
  \/ \E s \in Scrapers : CollectMuLock(s)
  \/ \E s \in Scrapers, id \in SourceIds : EnumDuplicate(s, id)
  \/ \E s \in Scrapers, id \in SourceIds : EnumCreate(s, id)
  \/ \E s \in Scrapers, id \in SourceIds : EnumCreateNil(s, id)
  \/ \E s \in Scrapers, id \in SourceIds : EnumCreateAttachFail(s, id)
  \/ \E s \in Scrapers, id \in SourceIds : EnumTracked(s, id)
  \/ \E s \in Scrapers : Reduce(s)
  \/ \E s \in Scrapers : Emit(s)
  \/ \E s \in Scrapers : EnumDone(s)
  \/ \E s \in Scrapers, id \in SourceIds : TeardownFree(s, id)
  \/ \E s \in Scrapers : TeardownDestroy(s)
  \/ \E s \in Scrapers : CollectMuUnlock(s)
  \/ \E s \in Scrapers : CollectOutputs(s)
  \/ \E s \in Scrapers : CollectEncoders(s)
  \/ \E s \in Scrapers : CollectReturn(s)
  \/ \E t \in Threads, v \in LiveVolmeters, fr \in FrameIds : CbInvoke(t, v, fr)
  \/ \E t \in Threads, v \in LiveVolmeters, fr \in FrameIds,
        id \in SourceIds \cup {Junk, "fault"} : CbInvokeFreed(t, v, fr, id)
  \/ \E t \in Threads : CbMuLock(t)
  \/ \E t \in Threads : CbUnknown(t)
  \/ \E t \in Threads : CbLookup(t)
  \/ \E t \in Threads : CbSrcLock(t)
  \/ \E t \in Threads : CbStore(t)
  \/ \E t \in Threads : CbAdvance(t)

Spec == Init /\ [][Next]_vars

(***************************************************************************)
(* Vocabulary of the properties                                            *)
(***************************************************************************)
\* every *Source the creation branch has ever inserted
Handles == UNION {{<<i, n>> : n \in 1..Len(heap[i])} : i \in SourceIds}

\* c.sources still maps the id of h to h
Registered(h) == h[1] \in DOMAIN sources /\ sources[h[1]] = h

\* how often C.free ran on the CID of h, obs_volmeter_destroy on its VolMeter
CidFrees(h) == cstr[Obj(h).CID[1]][Obj(h).CID[2]].frees
VmDestroys(h) == volm[Obj(h).VolMeter[1]][Obj(h).VolMeter[2]].destroys

\* a scraper is between the two halves of the teardown loop body for h
InTeardown(h) == \E s \in Scrapers : pc[s] = "destroy" /\ loc[s].del = h

\* positions of Collect after the c.mu section (main.go:378)
Reconciled == {"outputs", "encoders", "collected"}

\* the three per-channel descriptors, in the order of Kinds
SourceDescs ==
  <<"MagnitudePerSourceChannel", "PeakPerSourceChannel", "InputPeakPerSourceChannel">>

SetMax(S) == CHOOSE x \in S : \A y \in S : y <= x

\* the maximum of the last min(n, circBufSamples) of the first n values of seq
WindowMax(seq, n) ==
  LET lo == IF n > circBufSamples THEN n - circBufSamples + 1 ELSE 1
  IN SetMax({NegInf} \cup {seq[i] : i \in lo..n})

\* the metrics scraper s has sent in its current Collect call (in a Describe
\* call out[s] holds descriptors)
Metrics(s) == IF pc[s] \in {"describe", "described"} THEN <<>> ELSE out[s]

\* the positions in Metrics(s) of the samples reduced from Source h
SamplesOf(s, h) == {i \in DOMAIN Metrics(s) : Metrics(s)[i].obj = h}

\* the store (0..5) a per-channel sample summarises: channel and kind
StoreOf(smp) ==
  3 * smp.lv[3] + (CHOOSE j \in 0..2 : SourceDescs[j + 1] = smp.desc)

\* how many samples of descriptor desc scraper s has sent for (id, chn)
SourceSampleCount(s, id, chn, desc) ==
  Cardinality({i \in DOMAIN Metrics(s) :
                 /\ Metrics(s)[i].desc = desc
                 /\ Metrics(s)[i].lv = <<id, NameOf(id), chn>>})

(***************************************************************************)
(* C1                                                                      *)
(***************************************************************************)
\* C1 (as stated): when the reconciliation of a scrape is over, the keys of
\* c.sources are exactly the distinct ids its enumeration yielded.
C1_RegistryIsEnumeration ==
  \A s \in Scrapers :
    pc[s] \in Reconciled => DOMAIN sources = loc[s].seenSources

\* C1 (amended): when the reconciliation of a scrape is over, the keys of
\* c.sources are exactly the distinct ids its enumeration yielded, less those
\* whose tracker construction failed in this scrape; no id that was not
\* enumerated remains.
C1_RegistryIsEnumerationLessFailed ==
  \A s \in Scrapers :
    pc[s] \in Reconciled =>
      /\ DOMAIN sources = loc[s].seenSources \ loc[s].failed
      /\ loc[s].failed \subseteq loc[s].seenSources

\* a reconciliation is over in which one construction failed and another
\* enumerated source is tracked
C1_Witness ==
  \E s \in Scrapers :
    /\ pc[s] = "outputs"
    /\ loc[s].failed # {}
    /\ DOMAIN sources # {}

(***************************************************************************)
(* C2                                                                      *)
(***************************************************************************)
\* C2 (as stated): the values a scrape has emitted for a Source reflect, for
\* some m, exactly the first m callbacks on it: every channel and every kind
\* is the maximum over the window ending at callback m, no sample includes a
\* store of a callback whose other stores are missing from another sample.
C2_ScrapeSeesWholeCallbacks ==
  \A s \in Scrapers : \A h \in Handles :
    SamplesOf(s, h) # {} =>
      \E m \in 0..Len(hist[h[1]][h[2]][3 * SrcChannels - 1]) :
        \A i \in SamplesOf(s, h) :
          out[s][i].v = WindowMax(hist[h[1]][h[2]][StoreOf(out[s][i])], m)

(***************************************************************************)
(* C3                                                                      *)
(***************************************************************************)
\* the reconciler has removed h from the registry and released its resources
Destroyed(h) == ~Registered(h) /\ CidFrees(h) > 0 /\ VmDestroys(h) > 0

\* C3 (as stated): no step changes the ring buffers or the cursor of a Source
\* that has been removed from the registry and whose resources are released.
C3_NoAppendAfterDestruction ==
  [][\A h \in Handles :
       Destroyed(h) =>
         /\ heap'[h[1]][h[2]].Magnitude = Obj(h).Magnitude
         /\ heap'[h[1]][h[2]].Peak = Obj(h).Peak
         /\ heap'[h[1]][h[2]].InputPeak = Obj(h).InputPeak
         /\ heap'[h[1]][h[2]].Pos = Obj(h).Pos]_vars

(***************************************************************************)
(* C4                                                                      *)
(***************************************************************************)
\* a registered Source has nothing released; a removed one has its CID freed
\* once and, past the second half of the loop body, its volmeter destroyed
\* once; after a reconciliation every registered id was enumerated by it
C4_ReleaseCounts ==
  /\ \A h \in Handles :
       /\ Registered(h) => CidFrees(h) = 0 /\ VmDestroys(h) = 0
       /\ ~Registered(h) /\ InTeardown(h) => CidFrees(h) = 1 /\ VmDestroys(h) = 0
       /\ ~Registered(h) /\ ~InTeardown(h) => CidFrees(h) = 1 /\ VmDestroys(h) = 1
  /\ \A s \in Scrapers :
       pc[s] \in Reconciled => \A h \in Handles : Registered(h) => h[1] \in loc[s].seenSources

\* a release of a resource of h is a step of a scrape that holds c.mu, is in
\* its teardown loop, and whose enumeration did not yield the id of h
C4_ReleaseStep ==
  \A h \in Handles :
    (CidFrees(h)' # CidFrees(h) \/ VmDestroys(h)' # VmDestroys(h)) =>
      \E s \in Scrapers :
        /\ mu = s
        /\ pc[s] \in {"teardown", "destroy"}
        /\ h[1] \notin loc[s].seenSources

\* C4: every Source inserted into the registry has its volmeter and its CID
\* released exactly once, in the scrape whose enumeration first fails to yield
\* its id: not earlier, not twice, and not left unreleased after that scrape.
C4_ReleasedExactlyOnce == []C4_ReleaseCounts /\ [][C4_ReleaseStep]_vars

\* a scrape has finished reconciling after removing a Source and releasing
\* both of its resources
C4_Witness ==
  \E s \in Scrapers : \E h \in Handles :
    /\ pc[s] = "outputs"
    /\ ~Registered(h)
    /\ CidFrees(h) = 1
    /\ VmDestroys(h) = 1

(***************************************************************************)
(* C5                                                                      *)
(***************************************************************************)
\* C5: a callback that looks up an id with no entry in c.sources changes
\* neither the registry nor any Source (buffers, cursor, lock) nor any native
\* resource, creates no Source, leaves c.mu free and returns.
C5_UnknownIdChangesNothing ==
  [][\A t \in Threads :
       (cb[t].pc = "lookup" /\ cb[t].id \notin DOMAIN sources /\ cb'[t] # cb[t]) =>
         /\ sources' = sources
         /\ heap' = heap
         /\ hist' = hist
         /\ cstr' = cstr
         /\ volm' = volm
         /\ obsLock' = obsLock
         /\ mu' = NoOne
         /\ \A h \in Handles : heap'[h[1]][h[2]].mu # t
         /\ cb'[t].pc = "idle"]_vars

\* a callback has returned through the unknown-source branch
C5_Witness == \E t \in Threads : cb[t].last = "unknown"

(***************************************************************************)
(* C6                                                                      *)
(***************************************************************************)
\* C6: a scrape sends no per-channel sample for an id whose tracker it has
\* created; once its source section is over it has sent exactly one sample
\* per channel and kind for every id it enumerated whose tracker the previous
\* scrape created.
C6_FirstSummaryOneScrapeLater ==
  \A s \in Scrapers :
    /\ \A i \in DOMAIN Metrics(s) :
         Metrics(s)[i].obj # Nil => Metrics(s)[i].lv[1] \notin loc[s].created
    /\ pc[s] \in Reconciled =>
         \A id \in loc[s].prev \cap loc[s].seenSources :
           \A chn \in 0..(SrcChannels - 1) : \A j \in 1..3 :
             SourceSampleCount(s, id, chn, SourceDescs[j]) = 1

\* a scrape is complete that created one tracker and enumerated again a
\* source whose tracker the previous scrape created
C6_Witness ==
  \E s \in Scrapers :
    /\ pc[s] = "collected"
    /\ loc[s].created # {}
    /\ loc[s].prev \cap loc[s].seenSources # {}

(***************************************************************************)
(* C8                                                                      *)
(***************************************************************************)
\* the tail of out[s] holding as many samples as seq
Tail_(sq, seq) == SubSeq(sq, Len(sq) - Len(seq) + 1, Len(sq))

\* a completed scrape has sent the samples of every output and every encoder
C8_OutputsAndEncodersSent ==
  \A s \in Scrapers :
    pc[s] = "collected" =>
      LET tail == FlatMap(quota.outputs, "output") \o FlatMap(quota.encoders, "encoder")
      IN Len(out[s]) >= Len(tail) /\ Tail_(out[s], tail) = tail

\* a failed construction inserts nothing and leaves the scrape enumerating;
\* an id yielded while untracked always gets a construction attempt (a fresh
\* C.CString), whatever happened to it in earlier scrapes
C8_FailureStep ==
  \A s \in Scrapers :
    /\ loc'[s].failed \ loc[s].failed # {} =>
         /\ sources' = sources
         /\ heap' = heap
         /\ mu' = mu
         /\ pc'[s] = "enum"
         /\ out'[s] = out[s]
    /\ \A id \in SourceIds :
         (/\ pc[s] = "enum"
          /\ id \notin loc[s].seenSources
          /\ id \in loc'[s].seenSources
          /\ id \notin DOMAIN sources) =>
            Len(cstr'[id]) = Len(cstr[id]) + 1

\* C8: a failed tracker construction does not abort the scrape: no Source is
\* inserted, the enumeration goes on, outputs and encoders are still sent, and
\* the construction is attempted again in the next scrape that yields the id.
C8_FailureDoesNotAbort == []C8_OutputsAndEncodersSent /\ [][C8_FailureStep]_vars

\* a scrape is complete that created the tracker of an id whose construction
\* had failed before (the identifier buffer of the failed attempt is still
\* allocated)
C8_Witness ==
  \E s \in Scrapers : \E id \in SourceIds :
    /\ pc[s] = "collected"
    /\ id \in loc[s].created
    /\ Len(cstr[id]) >= 2
    /\ cstr[id][1].frees = 0
    /\ Len(heap[id]) = 1

(***************************************************************************)
(* C9                                                                      *)
(***************************************************************************)
\* C9: at most one goroutine is between obsLock.Lock() and obsLock.Unlock()
\* of Collect or Describe, and it is the holder of obsLock.
C9_OneScrapeAtATime ==
  /\ Cardinality({s \in Scrapers : pc[s] # "idle"}) <= 1
  /\ \A s \in Scrapers : pc[s] # "idle" => obsLock = s

\* one scrape is destroying a tracker while another goroutine stands before
\* obsLock.Lock() with a scrape to serve
C9_Witness ==
  \E s \in Scrapers : \E w \in Scrapers \ {s} :
    /\ pc[s] = "destroy"
    /\ pc[w] = "idle"
    /\ quota.calls > 0

(***************************************************************************)
(* C10                                                                     *)
(***************************************************************************)
\* C10 (as stated): a callback for a tracked id waits for c.mu held by a
\* scrape only while that scrape creates or destroys a tracker (between the
\* engine's yields, or in the teardown loop), never while it reduces and sends
\* the summaries of an existing source.
C10_CallbackWaitsOnlyForCreateDestroy ==
  \A t \in Threads : \A s \in Scrapers :
    (/\ cb[t].pc = "lock"
     /\ cb[t].id \in DOMAIN sources
     /\ mu = s) => pc[s] \in {"enum", "teardown", "destroy"}



(***************************************************************************)
(* Ring runs: the same program, started in the state it is in after one    *)
(* scrape has created the tracker of "a" and n volmeter updates for it     *)
(* have run to completion one after the other; one scraper goroutine and   *)
(* one engine thread go on from there.                                     *)
(***************************************************************************)
RECURSIVE AfterStores(_, _, _)
\* the Source after the first k stores of a callback carrying frame fr
AfterStores(src, fr, k) ==
  IF k = 0 THEN src
  ELSE StoreInto(AfterStores(src, fr, k - 1), StoreKind(k - 1), StoreCh(k - 1),
                 StoreVal(fr, k - 1))

\* the Source after a whole callback
AfterCallback(src, fr) ==
  [AfterStores(src, fr, 3 * src.Channels) EXCEPT !.Pos = NextPos(@)]

RECURSIVE AfterPushes(_, _)
\* the Source after the callbacks carrying the frames frs, in order
AfterPushes(src, frs) ==
  IF frs = <<>> \/ src.Pos \notin 0..(circBufSamples - 1) THEN src
  ELSE IF Len(frs) = 1 THEN AfterCallback(src, frs[1])
  ELSE LET half == Len(frs) \div 2
           first == AfterPushes(src, SubSeq(frs, 1, half))
       IN AfterPushes(first, SubSeq(frs, half + 1, Len(frs)))

\* n updates, all carrying frame 1 but update j, which carries frame 2; the
\* ring runs place j at the first update and at either side of the oldest
\* slot still held once the buffer has wrapped (the updates delivered during
\* the run carry frame 2 as well)
RingFrames(n, j) == [i \in 1..n |-> IF i = j THEN 2 ELSE 1]

InitRing ==
  \E n \in 0..MaxRingPushes :
  \E j \in {IF n = 0 THEN 0 ELSE 1, n - circBufSamples, n - circBufSamples + 1}
            \cap (0..n) :
    /\ srv = Listening
    /\ obsLock = NoOne
    /\ mu = NoOne
    /\ sources = [i \in {"a"} |-> <<"a", 1>>]
    /\ heap = [i \in SourceIds |->
                 IF i = "a"
                 THEN << AfterPushes(NewSource("a", <<"a", 1>>, <<"a", 1>>),
                                     RingFrames(n, j)) >>
                 ELSE <<>>]
    /\ cstr = [i \in SourceIds |-> IF i = "a" THEN << [frees |-> 0] >> ELSE <<>>]
    /\ volm = [i \in SourceIds |->
                 IF i = "a" THEN << [cb |-> <<"a", 1>>, destroys |-> 0] >> ELSE <<>>]
    /\ pc = [s \in Scrapers |-> "idle"]
    /\ loc = [s \in Scrapers |-> InitLoc]
    /\ out = [s \in Scrapers |-> <<>>]
    /\ cb = [t \in Threads |-> IdleCb]
    /\ hist = [i \in SourceIds |->
                 IF i = "a"
                 THEN << [k \in 0..(3 * SrcChannels - 1) |->
                            [m \in 1..n |-> StoreVal(RingFrames(n, j)[m], k)]] >>
                 ELSE <<>>]
    /\ quota = [calls |-> MaxRingCalls, faults |-> 0, frames |-> {2},
                threads |-> {"t1"}, outputs |-> EngineOutputs,
                encoders |-> EngineEncoders]
    /\ lastCreated = {"a"}
    /\ lastSent = [x \in {} |-> 0]

NextRing ==
  \/ CollectLock("s1")
  \/ CollectGlobals("s1")
  \/ CollectMuLock("s1")
  \/ \E id \in SourceIds : EnumDuplicate("s1", id)
  \/ \E id \in SourceIds : EnumCreate("s1", id)
  \/ \E id \in SourceIds : EnumTracked("s1", id)
  \/ Reduce("s1")
  \/ Emit("s1")
  \/ EnumDone("s1")
  \/ \E id \in SourceIds : TeardownFree("s1", id)
  \/ TeardownDestroy("s1")
  \/ CollectMuUnlock("s1")
  \/ CollectOutputs("s1")
  \/ CollectEncoders("s1")
  \/ CollectReturn("s1")
  \/ \E v \in LiveVolmeters, fr \in FrameIds : CbInvoke("t1", v, fr)
  \/ \E v \in LiveVolmeters, fr \in FrameIds,
        id \in SourceIds \cup {Junk, "fault"} : CbInvokeFreed("t1", v, fr, id)
  \/ CbMuLock("t1")
  \/ CbUnknown("t1")
  \/ CbLookup("t1")
  \/ CbSrcLock("t1")
  \/ CbStore("t1")
  \/ CbAdvance("t1")

SpecRing == InitRing /\ [][NextRing]_vars

(***************************************************************************)
(* Pair runs: the same program, started in the state it is in after one    *)
(* scrape has created the trackers of "a" and "b"; two engine threads      *)
(* deliver volmeter updates and no scrape arrives.                         *)
(***************************************************************************)
InitPair ==
  /\ srv = Listening
  /\ obsLock = NoOne
  /\ mu = NoOne
  /\ sources = [i \in SourceIds |-> <<i, 1>>]
  /\ heap = [i \in SourceIds |-> << NewSource(i, <<i, 1>>, <<i, 1>>) >>]
  /\ cstr = [i \in SourceIds |-> << [frees |-> 0] >>]
  /\ volm = [i \in SourceIds |-> << [cb |-> <<i, 1>>, destroys |-> 0] >>]
  /\ pc = [s \in Scrapers |-> "idle"]
  /\ loc = [s \in Scrapers |-> InitLoc]
  /\ out = [s \in Scrapers |-> <<>>]
  /\ cb = [t \in Threads |-> IdleCb]
  /\ hist = [i \in SourceIds |-> << [k \in 0..(3 * SrcChannels - 1) |-> <<>>] >>]
  /\ quota = [calls |-> MaxPairCalls, faults |-> 0, frames |-> {1},
              threads |-> Threads, outputs |-> EngineOutputs,
              encoders |-> EngineEncoders]
  /\ lastCreated = SourceIds
  /\ lastSent = [x \in {} |-> 0]

NextPair ==
  \/ \E t \in Threads, v \in LiveVolmeters, fr \in FrameIds : CbInvoke(t, v, fr)
  \/ \E t \in Threads : CbMuLock(t)
  \/ \E t \in Threads : CbLookup(t)
  \/ \E t \in Threads : CbSrcLock(t)
  \/ \E t \in Threads : CbStore(t)
  \/ \E t \in Threads : CbAdvance(t)

SpecPair == InitPair /\ [][NextPair]_vars

(***************************************************************************)
(* C11                                                                     *)
(***************************************************************************)
\* threads t and u are inside callbacks for two different tracked sources
OtherSource(t, u) ==
  /\ t # u
  /\ cb[t].pc \notin {"idle", "fault"}
  /\ cb[u].pc \notin {"idle", "fault"}
  /\ cb[t].id # cb[u].id
  /\ cb[t].id \in DOMAIN sources
  /\ cb[u].id \in DOMAIN sources

\* t stands at a Lock() of a mutex that u holds
WaitsFor(t, u) ==
  \/ cb[t].pc = "lock" /\ mu = u
  \/ cb[t].pc = "srclock" /\ Obj(cb[t].src).mu = u

\* C11 (as stated): a callback for one tracked source never stands at a lock
\* held by a concurrently running callback for another tracked source.
C11_CallbacksNeverContend ==
  \A t \in Threads : \A u \in Threads : OtherSource(t, u) => ~WaitsFor(t, u)

\* C11 (amended): callbacks for two different tracked sources never contend
\* on a per-Source lock, and a callback holds no other lock while it appends;
\* the one lock they share is MetricCollector.mu, which a callback holds only
\* for its registry lookup, and only there can one wait for the other.
C11_CallbacksContendOnlyOnLookup ==
  \A t \in Threads : \A u \in Threads :
    /\ cb[u].pc \in {"srclock", "store", "advance"} => mu # u
    /\ mu = u => cb[u].pc = "lookup"
    /\ OtherSource(t, u) =>
         /\ ~(cb[t].pc = "srclock" /\ Obj(cb[t].src).mu = u)
         /\ WaitsFor(t, u) => cb[t].pc = "lock" /\ cb[u].pc = "lookup"

\* two callbacks for different sources are inside their appends at once,
\* each holding its own Source's lock
C11_Witness ==
  \E t \in Threads : \E u \in Threads :
    /\ OtherSource(t, u)
    /\ cb[t].pc = "store"
    /\ cb[u].pc = "store"
    /\ Obj(cb[t].src).mu = t
    /\ Obj(cb[u].src).mu = u

(***************************************************************************)
(* Fair runs: the same program, started with the tracker of "a" in place,  *)
(* two scraper goroutines and two engine threads; every goroutine and      *)
(* thread that is inside a call and can take its next step eventually      *)
(* takes it (the Go scheduler and the engine run them, sync.Mutex hands    *)
(* the lock to a waiter, the consumer of ch keeps receiving, and engine    *)
(* calls, the enumerations among them, return).  Nothing obliges the       *)
(* environment to start a call.                                            *)
(***************************************************************************)
InitLive ==
  /\ srv = Listening
  /\ obsLock = NoOne
  /\ mu = NoOne
  /\ sources = [i \in {"a"} |-> <<"a", 1>>]
  /\ heap = [i \in SourceIds |->
               IF i = "a" THEN << NewSource("a", <<"a", 1>>, <<"a", 1>>) >> ELSE <<>>]
  /\ cstr = [i \in SourceIds |-> IF i = "a" THEN << [frees |-> 0] >> ELSE <<>>]
  /\ volm = [i \in SourceIds |->
               IF i = "a" THEN << [cb |-> <<"a", 1>>, destroys |-> 0] >> ELSE <<>>]
  /\ pc = [s \in Scrapers |-> "idle"]
  /\ loc = [s \in Scrapers |-> InitLoc]
  /\ out = [s \in Scrapers |-> <<>>]
  /\ cb = [t \in Threads |-> IdleCb]
  /\ hist = [i \in SourceIds |->
               IF i = "a" THEN << [k \in 0..(3 * SrcChannels - 1) |-> <<>>] >> ELSE <<>>]
  /\ quota = [calls |-> MaxLiveCalls, faults |-> MaxFaults, frames |-> {1},
              threads |-> Threads, outputs |-> EngineOutputs,
              encoders |-> EngineEncoders]
  /\ lastCreated = {"a"}
  /\ lastSent = [x \in {} |-> 0]

\* the steps by which scraper s goes on inside a Describe or Collect call
ScraperStep(s) ==
  \/ DescribeSend(s)
  \/ DescribeReturn(s)
  \/ CollectGlobals(s)
  \/ CollectMuLock(s)
  \/ Reduce(s)
  \/ Emit(s)
  \/ EnumDone(s)
  \/ \E id \in SourceIds : TeardownFree(s, id)
  \/ TeardownDestroy(s)
  \/ CollectMuUnlock(s)
  \/ CollectOutputs(s)
  \/ CollectEncoders(s)
  \/ CollectReturn(s)

\* the steps by which engine thread t goes on inside a callback
ThreadStep(t) ==
  \/ CbMuLock(t)
  \/ CbUnknown(t)
  \/ CbLookup(t)
  \/ CbSrcLock(t)
  \/ CbStore(t)
  \/ CbAdvance(t)

Fairness ==
  /\ \A s \in Scrapers : WF_vars(ScraperStep(s))
  /\ \A t \in Threads : WF_vars(ThreadStep(t))

SpecLive == InitLive /\ [][Next]_vars /\ Fairness

(***************************************************************************)
(* Scrapes over the lists the engine can enumerate: no audio source, and   *)
(* any of a few output lists and encoder lists, among them lists in which  *)
(* obs_enum_outputs / obs_enum_encoders yields one object twice and lists  *)
(* with two objects of one type id.                                        *)
(***************************************************************************)
\* scrapes over a list run
MaxListScrapes == 1

StreamOutput == EngineOutputs[1]

\* a second output of the same type id, under another name
BackupOutput ==
  [id |-> "rtmp_output", name |-> "backup", display |-> "Streaming",
   active |-> FALSE, total_bytes |-> 0, frames_dropped |-> 0,
   total_frames |-> 0, width |-> 1280, height |-> 720,
   congestion |-> [num |-> 0, den |-> 10], connect_time_ms |-> 1500,
   reconnecting |-> TRUE]

RecordOutput ==
  [id |-> "ffmpeg_muxer", name |-> "record", display |-> "Recording",
   active |-> TRUE, total_bytes |-> 7000, frames_dropped |-> 0,
   total_frames |-> 300, width |-> 1920, height |-> 1080,
   congestion |-> [num |-> 0, den |-> 10], connect_time_ms |-> 0,
   reconnecting |-> FALSE]

OutputLists ==
  { <<>>, <<StreamOutput>>, <<StreamOutput, RecordOutput>>,
    <<StreamOutput, StreamOutput>>, <<StreamOutput, BackupOutput>> }

AacEncoder == EngineEncoders[1]
X264Encoder == EngineEncoders[2]

\* an active video encoder and an idle audio encoder
NvencEncoder ==
  [id |-> "ffmpeg_nvenc", name |-> "nv", display |-> "NVENC", codec |-> "h264",
   audio |-> FALSE, active |-> TRUE, width |-> 1920, height |-> 1080,
   sample_rate |-> 0]

OpusEncoder ==
  [id |-> "ffmpeg_opus", name |-> "opus1", display |-> "Opus", codec |-> "opus",
   audio |-> TRUE, active |-> FALSE, width |-> 0, height |-> 0,
   sample_rate |-> 44100]

EncoderLists ==
  { <<>>, <<AacEncoder>>, <<X264Encoder>>, EngineEncoders,
    <<NvencEncoder, OpusEncoder>>, <<AacEncoder, AacEncoder>> }

InitLists ==
  /\ srv = Listening
  /\ obsLock = NoOne
  /\ mu = NoOne
  /\ sources = [i \in {} |-> 0]
  /\ heap = [i \in SourceIds |-> <<>>]
  /\ cstr = [i \in SourceIds |-> <<>>]
  /\ volm = [i \in SourceIds |-> <<>>]
  /\ pc = [s \in Scrapers |-> "idle"]
  /\ loc = [s \in Scrapers |-> InitLoc]
  /\ out = [s \in Scrapers |-> <<>>]
  /\ cb = [t \in Threads |-> IdleCb]
  /\ hist = [i \in SourceIds |-> <<>>]
  /\ \E os \in OutputLists : \E es \in EncoderLists :
       quota = [calls |-> MaxListScrapes, faults |-> 0, frames |-> {1},
                threads |-> {}, outputs |-> os, encoders |-> es]
  /\ lastCreated = {}
  /\ lastSent = [x \in {} |-> 0]

NextLists ==
  \/ \E s \in Scrapers : CollectLock(s)
  \/ \E s \in Scrapers : CollectGlobals(s)
  \/ \E s \in Scrapers : CollectMuLock(s)
  \/ \E s \in Scrapers : EnumDone(s)
  \/ \E s \in Scrapers : CollectMuUnlock(s)
  \/ \E s \in Scrapers : CollectOutputs(s)
  \/ \E s \in Scrapers : CollectEncoders(s)
  \/ \E s \in Scrapers : CollectReturn(s)

SpecLists == InitLists /\ [][NextLists]_vars

(***************************************************************************)
(* C15                                                                     *)
(***************************************************************************)
\* the descriptors of the per-output and the per-encoder samples
OutputDescs ==
  {"InfoPerOutput", "OutputActivePerOutput", "TotalBytesPerOutput",
   "DroppedFramesPerOutput", "TotalFramesPerOutput", "WidthPerOutput",
   "HeightPerOutput", "CongestionPerOutput", "ConnectTimePerOutput",
   "ReconnectingPerOutput"}

EncoderDescs ==
  {"InfoPerEncoder", "ActivePerEncoder", "WidthPerEncoder", "HeightPerEncoder",
   "SampleRatePerEncoder"}

\* C15: whatever the output and encoder enumerations yield, no two samples of
\* one scrape share a metric name and label values (each per-output and
\* per-encoder metric is sent once for an object yielded twice).
C15_ListsDeduplicatedById ==
  \A s \in Scrapers : \A i, j \in DOMAIN Metrics(s) :
    (/\ i # j
     /\ Metrics(s)[i].desc \in OutputDescs \cup EncoderDescs
     /\ Descs[Metrics(s)[i].desc].fq = Descs[Metrics(s)[j].desc].fq)
    => Metrics(s)[i].lv # Metrics(s)[j].lv

(***************************************************************************)
(* C16                                                                     *)
(***************************************************************************)
\* the kind the README gives each field: cumulative totals are counters,
\* instantaneous state is a gauge
DocumentedKind ==
  [TotalFrames |-> "counter", LaggedFrames |-> "counter",
   VideoTotalFrames |-> "counter", VideoSkippedFrames |-> "counter",
   TotalBytesPerOutput |-> "counter", DroppedFramesPerOutput |-> "counter",
   TotalFramesPerOutput |-> "counter",
   ActiveFPS |-> "gauge", AverageFrameTimeNS |-> "gauge",
   OutputActivePerOutput |-> "gauge", WidthPerOutput |-> "gauge",
   HeightPerOutput |-> "gauge", CongestionPerOutput |-> "gauge",
   ConnectTimePerOutput |-> "gauge", ReconnectingPerOutput |-> "gauge",
   ActivePerEncoder |-> "gauge", WidthPerEncoder |-> "gauge",
   HeightPerEncoder |-> "gauge", SampleRatePerEncoder |-> "gauge"]

\* C16: in every scrape every sample is sent with the kind its field
\* requires: byte, frame and dropped-frame totals as counters, active, width,
\* height, congestion, connect time and reconnecting as gauges.
C16_KindsAsRequired ==
  \A s \in Scrapers : \A i \in DOMAIN Metrics(s) :
    Metrics(s)[i].desc \in DOMAIN DocumentedKind
      => Metrics(s)[i].vt = DocumentedKind[Metrics(s)[i].desc]

(***************************************************************************)
(* C17                                                                     *)
(***************************************************************************)
\* the names NewMetricCollector passes to BuildFQName
MetricNames ==
  {"active_fps", "average_frame_time_ns", "frames_total", "lagged_frames_total",
   "video_frames_total", "video_skipped_frames_total", "info", "active",
   "bytes_total", "dropped_frames_total", "frames", "video_width", "video_height",
   "congestion", "connect_time_seconds", "reconnecting", "width", "height",
   "sample_rate", "channel_magnitude", "channel_peak", "input_peak"}

\* the fully qualified name fq is <namespace>_<subsystem>_<name>
InSubsystem(fq, subsystem) ==
  \E n \in MetricNames : fq = BuildFQName(namespace, subsystem, n)

\* C17: every sample sent for an encoder is named obs_encoder_<name> (the
\* active flag obs_encoder_active), every per-output sample obs_output_<name>
\* and every per-source sample obs_source_<name>.
C17_NamedInOwnSubsystem ==
  \A s \in Scrapers : \A i \in DOMAIN Metrics(s) :
    LET d == Metrics(s)[i].desc IN
      /\ d \in EncoderDescs => InSubsystem(Descs[d].fq, encoderSubsystem)
      /\ d = "ActivePerEncoder" => Descs[d].fq = "obs_encoder_active"
      /\ d \in OutputDescs => InSubsystem(Descs[d].fq, outputSubsystem)
      /\ Metrics(s)[i].obj # Nil => InSubsystem(Descs[d].fq, sourceSubsystem)

(***************************************************************************)
(* C18                                                                     *)
(***************************************************************************)
\* the positions in Metrics(s) of the samples of descriptors in D
PositionsOf(s, D) == {i \in DOMAIN Metrics(s) : Metrics(s)[i].desc \in D}

\* the samples scraper s sent in the k-th call of a callback that sends n
\* samples a call, the first of them at position first
CallSlice(s, first, n, k) ==
  [i \in 1..n |-> Metrics(s)[first + n * (k - 1) + i - 1]]

\* the value of the one sample of descriptor d in slice sl
ValueIn(sl, d) == sl[CHOOSE i \in DOMAIN sl : sl[i].desc = d].v

\* slice sl holds exactly one sample of each descriptor in D
OneOfEach(sl, D) ==
  /\ {sl[i].desc : i \in DOMAIN sl} = D
  /\ Len(sl) = Cardinality(D)

\* C18: once the encoder enumeration of a scrape is over, every enumerated
\* encoder has its five samples info, active, width, height, sample_rate:
\* an audio encoder width 0, height 0 and the engine's sample rate, a video
\* encoder the engine's width and height and sample rate 0.
C18_FiveSamplesPerEncoder ==
  \A s \in Scrapers :
    pc[s] = "collected" =>
      LET encs == quota.encoders
          first == Len(Metrics(s)) - 5 * Len(encs) + 1
      IN /\ PositionsOf(s, EncoderDescs) = first..Len(Metrics(s))
         /\ first >= 1
         /\ \A k \in 1..Len(encs) :
              LET e == encs[k]
                  sl == CallSlice(s, first, 5, k)
              IN /\ OneOfEach(sl, EncoderDescs)
                 /\ \A i \in 1..5 : sl[i].lv[1] = e.id /\ sl[i].lv[2] = e.name
                 /\ ValueIn(sl, "InfoPerEncoder") = 1
                 /\ ValueIn(sl, "ActivePerEncoder") = (IF e.active THEN 1 ELSE 0)
                 /\ ValueIn(sl, "WidthPerEncoder") = (IF e.audio THEN 0 ELSE e.width)
                 /\ ValueIn(sl, "HeightPerEncoder") = (IF e.audio THEN 0 ELSE e.height)
                 /\ ValueIn(sl, "SampleRatePerEncoder") =
                      (IF e.audio THEN e.sample_rate ELSE 0)

\* a scrape has enumerated an audio encoder and a video encoder
C18_Witness ==
  \E s \in Scrapers :
    /\ pc[s] = "collected"
    /\ \E k, l \in 1..Len(quota.encoders) :
         /\ quota.encoders[k].audio
         /\ ~quota.encoders[l].audio
         /\ quota.encoders[l].width > 0
         /\ quota.encoders[k].sample_rate > 0

GlobalDescs ==
  {"ActiveFPS", "AverageFrameTimeNS", "TotalFrames", "LaggedFrames",
   "VideoTotalFrames", "VideoSkippedFrames"}

\* the phase of Collect a sample belongs to
PhaseOf(smp) ==
  IF smp.desc \in GlobalDescs THEN 1
  ELSE IF smp.obj # Nil THEN 2
  ELSE IF smp.desc \in OutputDescs THEN 3
  ELSE 4

\* the samples sent so far are in phase order, the six global scalars lead,
\* and output or encoder samples exist only after the c.mu section
C20_PhasesInOrder ==
  \A s \in Scrapers :
    /\ \A i \in 1..(Len(Metrics(s)) - 1) :
         PhaseOf(Metrics(s)[i]) <= PhaseOf(Metrics(s)[i + 1])
    /\ Len(Metrics(s)) > 0 => PositionsOf(s, GlobalDescs) = 1..6
    /\ PositionsOf(s, OutputDescs \cup EncoderDescs) # {}
         => pc[s] \in {"encoders", "collected"} /\ mu # s
    /\ PositionsOf(s, EncoderDescs) # {} => pc[s] = "collected"

\* from the first output sample on, the scrape creates and tears down nothing
C20_ReconciledStep ==
  (\E s \in Scrapers : pc[s] \in Reconciled) =>
    /\ sources' = sources
    /\ cstr' = cstr
    /\ volm' = volm
    /\ \A i \in SourceIds : Len(heap'[i]) = Len(heap[i])

\* C20: in every scrape the six global scalars are sent first, then the
\* per-source summaries, then the per-output samples, then the per-encoder
\* samples, and source creation and teardown are over before the first
\* output sample.
C20_FixedPhaseOrder == []C20_PhasesInOrder /\ [][C20_ReconciledStep]_vars

\* a scrape that has sent samples of all four phases
C20_Witness ==
  \E s \in Scrapers :
    /\ pc[s] = "collected"
    /\ \A ph \in 1..4 : \E i \in DOMAIN Metrics(s) : PhaseOf(Metrics(s)[i]) = ph

(***************************************************************************)
(* C21                                                                     *)
(***************************************************************************)
\* C21: the identifier buffer registered as a volmeter's callback argument is
\* not freed while that volmeter is live (created, with the callback added,
\* not destroyed): the volmeter is destroyed before the buffer is released.
C21_BufferOutlivesSubscription ==
  \A v \in LiveVolmeters : cstr[CbArg(v)[1]][CbArg(v)[2]].frees = 0

(***************************************************************************)
(* C22                                                                     *)
(***************************************************************************)
\* the C.CString buffers not yet freed, the volmeters not yet destroyed
LiveBuffers ==
  UNION {{<<i, n>> : n \in {m \in 1..Len(cstr[i]) : cstr[i][m].frees = 0}} : i \in SourceIds}

UndestroyedVolmeters ==
  UNION {{<<i, n>> : n \in {m \in 1..Len(volm[i]) : volm[i][m].destroys = 0}} : i \in SourceIds}

\* the buffers and volmeters held by the Sources in the registry
OwnedBuffers == {Obj(h).CID : h \in {g \in Handles : Registered(g)}}
OwnedVolmeters == {Obj(h).VolMeter : h \in {g \in Handles : Registered(g)}}

\* C22: outside the reconciliation of a scrape the live native allocations
\* are exactly those of the Sources in the registry: a failed tracker
\* construction has released the identifier buffer and any volmeter it made.
C22_NoNativeLeak ==
  (mu \notin Scrapers) =>
    /\ LiveBuffers = OwnedBuffers
    /\ UndestroyedVolmeters = OwnedVolmeters

(***************************************************************************)
(* C23                                                                     *)
(***************************************************************************)
\* the descriptors Describe announces
Described == {DescribeOrder[i] : i \in DOMAIN DescribeOrder}

\* C23: every sample a scrape sends has a descriptor that Describe sends.
C23_SamplesAreDescribed ==
  \A s \in Scrapers : \A i \in DOMAIN Metrics(s) : Metrics(s)[i].desc \in Described

(***************************************************************************)
(* C24                                                                     *)
(***************************************************************************)
\* a Source appended to the heap has 2 x 3 buffers of 32 slots, every slot
\* negative infinity, and cursor 0; the three samples a scrape sends for a
\* channel of a Source no callback has stored into are negative infinity
C24_Step ==
  /\ \A id \in SourceIds :
       Len(heap'[id]) > Len(heap[id]) =>
         LET o == heap'[id][Len(heap'[id])]
         IN /\ o.Pos = 0
            /\ \A buf \in {o.Magnitude, o.Peak, o.InputPeak} :
                 /\ DOMAIN buf = 0..1
                 /\ \A c \in 0..1 :
                      /\ DOMAIN buf[c] = 0..31
                      /\ \A n \in 0..31 : buf[c][n] = NegInf
  /\ \A s \in Scrapers :
       (pc[s] = "emit" /\ pc'[s] # "emit" /\ StoresOn(loc[s].src) = 0) =>
         /\ Len(out'[s]) = Len(out[s]) + 3
         /\ \A j \in 1..3 :
              /\ out'[s][Len(out[s]) + j].v = NegInf
              /\ out'[s][Len(out[s]) + j].obj = loc[s].src

\* C24: a tracker is created with all 2 x 3 ring buffers holding negative
\* infinity in all 32 slots and cursor 0, and every scrape that summarises a
\* tracked source no callback has stored into sends negative infinity for
\* every channel and kind.
C24_EmptySamplerIsNegInf == [][C24_Step]_vars

\* a scrape has sent negative infinity for both channels of a tracked source
\* that has had no callback since it was created
C24_Witness ==
  \E s \in Scrapers : \E h \in Handles :
    /\ Registered(h)
    /\ StoresOn(h) = 0
    /\ Cardinality({i \in SamplesOf(s, h) : Metrics(s)[i].v = NegInf}) = 3 * SrcChannels

(***************************************************************************)
(* Race runs: the tracker of "a" exists and has had 0, 31 or 33 volmeter   *)
(* updates; two engine threads deliver further updates for it, in any      *)
(* interleaving, and no scrape arrives.                                    *)
(***************************************************************************)
\* volmeter updates the engine delivers over a race run
MaxRaceCalls == 3

\* the updates "a" has had before a race run starts
RacePushes == {0, circBufSamples - 1, circBufSamples + 1}

InitRace ==
  \E n \in RacePushes :
    /\ srv = Listening
    /\ obsLock = NoOne
    /\ mu = NoOne
    /\ sources = [i \in {"a"} |-> <<"a", 1>>]
    /\ heap = [i \in SourceIds |->
                 IF i = "a"
                 THEN << AfterPushes(NewSource("a", <<"a", 1>>, <<"a", 1>>),
                                     RingFrames(n, 1)) >>
                 ELSE <<>>]
    /\ cstr = [i \in SourceIds |-> IF i = "a" THEN << [frees |-> 0] >> ELSE <<>>]
    /\ volm = [i \in SourceIds |->
                 IF i = "a" THEN << [cb |-> <<"a", 1>>, destroys |-> 0] >> ELSE <<>>]
    /\ pc = [s \in Scrapers |-> "idle"]
    /\ loc = [s \in Scrapers |-> InitLoc]
    /\ out = [s \in Scrapers |-> <<>>]
    /\ cb = [t \in Threads |-> IdleCb]
    /\ hist = [i \in SourceIds |->
                 IF i = "a"
                 THEN << [k \in 0..(3 * SrcChannels - 1) |->
                            [m \in 1..n |-> StoreVal(RingFrames(n, 1)[m], k)]] >>
                 ELSE <<>>]
    /\ quota = [calls |-> MaxRaceCalls, faults |-> 0, frames |-> {1, 2},
                threads |-> Threads, outputs |-> EngineOutputs,
                encoders |-> EngineEncoders]
    /\ lastCreated = {"a"}
    /\ lastSent = [x \in {} |-> 0]

NextRace ==
  \/ \E t \in Threads, v \in LiveVolmeters, fr \in FrameIds : CbInvoke(t, v, fr)
  \/ \E t \in Threads : CbMuLock(t)
  \/ \E t \in Threads : CbLookup(t)
  \/ \E t \in Threads : CbSrcLock(t)
  \/ \E t \in Threads : CbStore(t)
  \/ \E t \in Threads : CbAdvance(t)

SpecRace == InitRace /\ [][NextRace]_vars

(***************************************************************************)
(* C25                                                                     *)
(***************************************************************************)
\* the callbacks that have got past src.mu.Lock() for Source h
Appending(h) == {t \in Threads : cb[t].pc \in {"store", "advance"} /\ cb[t].src = h}

\* the callbacks for h that have run to completion: those that have made
\* their last store, less the one that has not yet advanced the cursor
Completed(h) ==
  Len(hist[h[1]][h[2]][3 * SrcChannels - 1])
    - Cardinality({t \in Appending(h) : cb[t].pc = "advance"})

\* the ring buffer store number k (0..5) goes to
BufOf(h, k) ==
  CASE k % 3 = 0 -> Obj(h).Magnitude[k \div 3]
    [] k % 3 = 1 -> Obj(h).Peak[k \div 3]
    [] OTHER     -> Obj(h).InputPeak[k \div 3]

\* what slot i holds when the j-th value of hs went to slot (j - 1) mod 32
SlotOf(hs, i) ==
  LET js == {j \in 1..Len(hs) : (j - 1) % 32 = i}
  IN IF js = {} THEN NegInf ELSE hs[SetMax(js)]

\* C25: for every tracked source, under every interleaving of callbacks for
\* it, the cursor is in 0..31 and equals the number of completed callbacks
\* mod 32; at most one callback is inside its append, the stores it has made
\* so far all went to the slot the cursor points at, and every buffer holds
\* in slot i the value of the latest callback whose number is i mod 32: no
\* slot is written by two callbacks of one lap and no increment is lost.
C25_CursorCountsCallbacks ==
  \A h \in Handles :
    Registered(h) =>
      LET n == Completed(h)
          hs == hist[h[1]][h[2]]
      IN /\ Obj(h).Pos \in 0..31
         /\ Obj(h).Pos = n % 32
         /\ Cardinality(Appending(h)) <= 1
         /\ \A k \in 0..5 :
              /\ Len(hs[k]) = n + (IF \E t \in Appending(h) :
                                        cb[t].pc = "advance" \/ cb[t].k > k
                                   THEN 1 ELSE 0)
              /\ \A i \in 0..31 : BufOf(h, k)[i] = SlotOf(hs[k], i)

\* one callback is storing into the last slot of the buffer of a source
\* while a second callback for the same source stands at src.mu.Lock()
C25_Witness ==
  \E t, u \in Threads :
    /\ cb[t].pc = "store"
    /\ cb[t].k = 3
    /\ cb[u].pc = "srclock"
    /\ cb[u].src = cb[t].src
    /\ Obj(cb[t].src).Pos = 31

(***************************************************************************)
(* Re-creation runs: the tracker of "a" exists; one scraper goroutine and  *)
(* one engine thread go on from there, long enough for "a" to be missing   *)
(* from one scrape, enumerated again by a later one and summarised by the  *)
(* scrape after that.  No update is delivered between the C.free and the   *)
(* obs_volmeter_destroy of a teardown.                                     *)
(***************************************************************************)
\* calls the environment makes over a re-creation run
MaxRecreateCalls == 4

InitRecreate ==
  /\ srv = Listening
  /\ obsLock = NoOne
  /\ mu = NoOne
  /\ sources = [i \in {"a"} |-> <<"a", 1>>]
  /\ heap = [i \in SourceIds |->
               IF i = "a" THEN << NewSource("a", <<"a", 1>>, <<"a", 1>>) >> ELSE <<>>]
  /\ cstr = [i \in SourceIds |-> IF i = "a" THEN << [frees |-> 0] >> ELSE <<>>]
  /\ volm = [i \in SourceIds |->
               IF i = "a" THEN << [cb |-> <<"a", 1>>, destroys |-> 0] >> ELSE <<>>]
  /\ pc = [s \in Scrapers |-> "idle"]
  /\ loc = [s \in Scrapers |-> InitLoc]
  /\ out = [s \in Scrapers |-> <<>>]
  /\ cb = [t \in Threads |-> IdleCb]
  /\ hist = [i \in SourceIds |->
               IF i = "a" THEN << [k \in 0..(3 * SrcChannels - 1) |-> <<>>] >> ELSE <<>>]
  /\ quota = [calls |-> MaxRecreateCalls, faults |-> 0, frames |-> {1},
              threads |-> {"t1"}, outputs |-> EngineOutputs,
              encoders |-> EngineEncoders]
  /\ lastCreated = {"a"}
  /\ lastSent = [x \in {} |-> 0]

NextRecreate ==
  \/ CollectLock("s1")
  \/ CollectGlobals("s1")
  \/ CollectMuLock("s1")
  \/ \E id \in SourceIds : EnumDuplicate("s1", id)
  \/ \E id \in SourceIds : EnumCreate("s1", id)
  \/ \E id \in SourceIds : EnumTracked("s1", id)
  \/ Reduce("s1")
  \/ Emit("s1")
  \/ EnumDone("s1")
  \/ \E id \in SourceIds : TeardownFree("s1", id)
  \/ TeardownDestroy("s1")
  \/ CollectMuUnlock("s1")
  \/ CollectOutputs("s1")
  \/ CollectEncoders("s1")
  \/ CollectReturn("s1")
  \/ \E v \in LiveVolmeters, fr \in FrameIds : CbInvoke("t1", v, fr)
  \/ CbMuLock("t1")
  \/ CbUnknown("t1")
  \/ CbLookup("t1")
  \/ CbSrcLock("t1")
  \/ CbStore("t1")
  \/ CbAdvance("t1")

SpecRecreate == InitRecreate /\ [][NextRecreate]_vars

(***************************************************************************)
(* C26                                                                     *)
(***************************************************************************)
\* a tracker created for an id that had a tracker before is new (its own
\* buffer, its own volmeter, buffers negative infinity, cursor 0), the scrape
\* that creates it sends nothing for it, and only updates of a tracker's own
\* volmeter are stored into it
C26_Step ==
  /\ \A id \in SourceIds :
       (Len(heap'[id]) > Len(heap[id]) /\ Len(heap[id]) > 0) =>
         LET o == heap'[id][Len(heap'[id])]
         IN /\ o.Pos = 0
            /\ o.Magnitude = [c \in 0..1 |-> [n \in 0..31 |-> NegInf]]
            /\ o.Peak = [c \in 0..1 |-> [n \in 0..31 |-> NegInf]]
            /\ o.InputPeak = [c \in 0..1 |-> [n \in 0..31 |-> NegInf]]
            /\ \A m \in 1..Len(heap[id]) :
                 /\ heap[id][m].VolMeter # o.VolMeter
                 /\ heap[id][m].CID # o.CID
            /\ volm'[o.VolMeter[1]][o.VolMeter[2]].destroys = 0
            /\ \A s \in Scrapers : \A i \in DOMAIN out'[s] :
                 pc'[s] \notin {"describe", "described"} => out'[s][i].obj[1] # id
  /\ \A t \in Threads :
       (cb[t].pc = "store" /\ cb'[t] # cb[t]) =>
         cb[t].vm = Obj(cb[t].src).VolMeter

\* C26: a source id that was absent from one scrape and is enumerated again
\* later gets a freshly built tracker that sends nothing in the scrape that
\* builds it, and no update pushed by the volmeter of the earlier tracker
\* reaches the buffers the later summaries are computed from.
C26_RecreatedTrackerIsFresh == [][C26_Step]_vars

(***************************************************************************)
(* C12                                                                     *)
(***************************************************************************)
\* the locks goroutine or thread x holds
HoldsNothing(x) ==
  /\ obsLock # x
  /\ mu # x
  /\ \A h \in Handles : Obj(h).mu # x

\* C12: under the fairness above every Describe or Collect call that has
\* taken obsLock returns, and every callback that has read its identifier
\* returns, holding no lock afterwards (a callback whose C.GoString faults on
\* a freed identifier has taken no lock and is not counted as a return).
C12_EveryCallReturns ==
  /\ \A s \in Scrapers : (pc[s] # "idle") ~> (pc[s] = "idle" /\ HoldsNothing(s))
  /\ \A t \in Threads :
       (cb[t].pc \notin {"idle", "fault"}) ~> (cb[t].pc = "idle" /\ HoldsNothing(t))
  /\ [](\A t \in Threads : cb[t].pc \in {"idle", "fault"} => HoldsNothing(t))
  /\ [](\A s \in Scrapers : pc[s] = "idle" => HoldsNothing(s))

\* a callback stands at the registry lock while a scrape that holds it is
\* between the two halves of a teardown, and the other goroutine is idle
C12_Witness ==
  \E s \in Scrapers : \E t \in Threads :
    /\ pc[s] = "destroy"
    /\ mu = s
    /\ cb[t].pc = "lock"

(***************************************************************************)
(* C13                                                                     *)
(***************************************************************************)
\* the summary scraper s is about to send is the one last sent for the same
\* Source and channel, when no callback has stored into that Source since
C13_SameSummary ==
  \A s \in Scrapers :
    (/\ pc[s] = "emit"
     /\ <<loc[s].src, loc[s].chn>> \in DOMAIN lastSent
     /\ loc[s].stamp = StoresOn(loc[s].src))
    => /\ loc[s].magnitude = lastSent[<<loc[s].src, loc[s].chn>>].magnitude
       /\ loc[s].peak = lastSent[<<loc[s].src, loc[s].chn>>].peak
       /\ loc[s].inputPeak = lastSent[<<loc[s].src, loc[s].chn>>].inputPeak

\* a step of a scrape leaves buffers and cursor of every tracked Source alone
C13_ScrapeStep ==
  (pc' # pc) =>
    \A h \in Handles :
      Registered(h) =>
        /\ heap'[h[1]][h[2]].Magnitude = Obj(h).Magnitude
        /\ heap'[h[1]][h[2]].Peak = Obj(h).Peak
        /\ heap'[h[1]][h[2]].InputPeak = Obj(h).InputPeak
        /\ heap'[h[1]][h[2]].Pos = Obj(h).Pos

\* C13: two scrapes of a tracked source with no callback store for it between
\* them send the same three summaries for every channel, and no step of a
\* scrape changes a tracked source's ring buffers or write cursor.
C13_ScrapesAreIdempotent == []C13_SameSummary /\ [][C13_ScrapeStep]_vars

\* a second reduction of a channel whose buffers hold pushed samples, about
\* to be sent with no store since the first one was sent
C13_Witness ==
  \E s \in Scrapers :
    /\ pc[s] = "emit"
    /\ <<loc[s].src, loc[s].chn>> \in DOMAIN lastSent
    /\ loc[s].stamp = StoresOn(loc[s].src)
    /\ loc[s].magnitude # NegInf
    /\ Obj(loc[s].src).Pos # 0

(***************************************************************************)
(* C14                                                                     *)
(***************************************************************************)
\* the per-channel samples a step of scraper s sends are for a source id,
\* channel and kind the scrape has sent no sample for
C14_EmitStep ==
  \A s \in Scrapers :
    (pc[s] = "emit" /\ pc'[s] # "emit") =>
      \A i \in (Len(out[s]) + 1)..Len(out'[s]) : \A j \in 1..(i - 1) :
        ~(out'[s][i].desc = out'[s][j].desc /\ out'[s][i].lv = out'[s][j].lv)

\* a step that creates a tracker or a volmeter for id creates one of each at
\* most, is taken by a scrape that has neither seen nor created id before,
\* and marks id seen; the marks last until the scrape returns
C14_CreateStep ==
  /\ \A id \in SourceIds :
       (Len(heap'[id]) > Len(heap[id]) \/ Len(volm'[id]) > Len(volm[id])) =>
         /\ Len(heap'[id]) <= Len(heap[id]) + 1
         /\ Len(volm'[id]) <= Len(volm[id]) + 1
         /\ \E s \in Scrapers :
              /\ mu = s
              /\ id \notin loc[s].seenSources
              /\ id \notin loc[s].created
              /\ id \in loc'[s].seenSources
  /\ \A s \in Scrapers :
       pc'[s] # "idle" => loc[s].seenSources \subseteq loc'[s].seenSources

\* C14: however often the source enumeration yields one id within a scrape,
\* the scrape creates at most one tracker and one volmeter for it and sends
\* at most one sample per (source id, channel, kind).
C14_DuplicatesCreateAndEmitOnce == [][C14_CreateStep /\ C14_EmitStep]_vars

\* the enumeration has yielded the id it created a tracker for a second time
C14_Witness ==
  \E s \in Scrapers : \E id \in SourceIds :
    /\ loc[s].enumN = 2
    /\ loc[s].seenSources = {id}
    /\ loc[s].created = {id}
    /\ Registered(<<id, Len(heap[id])>>)

(***************************************************************************)
(* C7                                                                      *)
(***************************************************************************)
\* C7: when no callback is inside its append, a reduction of channel chn of a
\* Source that has received n callbacks yields, for each kind, the maximum of
\* the values of the min(n, 32) most recent callbacks, and these are the
\* values the scrape sends for (chn, kind).
C7_SummaryIsWindowMax ==
  [][\A s \in Scrapers :
       LET h == loc[s].src
           chn == loc[s].chn
           hs == hist[h[1]][h[2]]
           n == Len(hs[3 * chn])
       IN /\ (pc[s] = "reduce" /\ pc'[s] = "emit" /\ Obj(h).mu = NoOne) =>
               /\ loc'[s].magnitude = WindowMax(hs[3 * chn], n)
               /\ loc'[s].peak = WindowMax(hs[3 * chn + 1], n)
               /\ loc'[s].inputPeak = WindowMax(hs[3 * chn + 2], n)
          /\ (pc[s] = "emit" /\ pc'[s] # "emit") =>
               /\ Len(out'[s]) = Len(out[s]) + 3
               /\ \A j \in 1..3 :
                    /\ out'[s][Len(out[s]) + j].desc = SourceDescs[j]
                    /\ out'[s][Len(out[s]) + j].lv = <<h[1], NameOf(h[1]), chn>>
               /\ out'[s][Len(out[s]) + 1].v = loc[s].magnitude
               /\ out'[s][Len(out[s]) + 2].v = loc[s].peak
               /\ out'[s][Len(out[s]) + 3].v = loc[s].inputPeak]_vars

\* a scrape has reduced channel 0 of a Source whose buffer has wrapped, and
\* the peak it is about to send is below the peak of the overwritten callback
C7_Witness ==
  \E s \in Scrapers :
    /\ pc[s] = "emit"
    /\ loc[s].src = <<"a", 1>>
    /\ loc[s].chn = 0
    /\ Len(hist["a"][1][1]) > circBufSamples
    /\ hist["a"][1][1][1] > loc[s].peak



(***************************************************************************)
(* Plugin load: obs_module_load and the goroutine it starts.  The          *)
(* goroutine walks the ports FirstPort .. PortLimit - 1, handing each to   *)
(* http.ListenAndServe and moving on whenever the call returns.            *)
(***************************************************************************)

\* log.Println writes a line and returns: the process keeps running
logPrintln(h) == h

\* the plugin library mapped into the host, obs_module_load not yet called
InitLoad ==
  /\ srv = [load |-> "unloaded", go |-> "none", port |-> FirstPort,
            tried |-> <<>>, last |-> NoReturn, host |-> "running"]
  /\ obsLock = NoOne
  /\ mu = NoOne
  /\ sources = [i \in {} |-> 0]
  /\ heap = [i \in SourceIds |-> <<>>]
  /\ cstr = [i \in SourceIds |-> <<>>]
  /\ volm = [i \in SourceIds |-> <<>>]
  /\ pc = [s \in Scrapers |-> "idle"]
  /\ loc = [s \in Scrapers |-> InitLoc]
  /\ out = [s \in Scrapers |-> <<>>]
  /\ cb = [t \in Threads |-> IdleCb]
  /\ hist = [i \in SourceIds |-> <<>>]
  /\ quota = [calls |-> 0, faults |-> 0, frames |-> {1},
              threads |-> {"t1"}, outputs |-> EngineOutputs,
              encoders |-> EngineEncoders]
  /\ lastCreated = {}
  /\ lastSent = [x \in {} |-> 0]

\* obs_module_load up to and including the go statement: registerMetrics,
\* the two handlers, and the goroutine started at its loop head
ModuleLoadGo ==
  /\ srv.load = "unloaded"
  /\ sources' = [i \in {} |-> 0]
  /\ srv' = [srv EXCEPT !.load = "spawned", !.go = "loop", !.port = FirstPort]
  /\ UNCHANGED <<obsLock, mu, heap, cstr, volm, pc, loc, out, cb, hist, quota,
                 lastCreated, lastSent>>

\* return true
ModuleLoadReturn ==
  /\ srv.load = "spawned"
  /\ srv' = [srv EXCEPT !.load = "returned"]
  /\ UNCHANGED <<obsLock, mu, sources, heap, cstr, volm, pc, loc, out, cb, hist,
                 quota, lastCreated, lastSent>>

\* the loop test passes: log the attempt and call ListenAndServe on the port
GoTry ==
  /\ srv.go = "loop"
  /\ srv.port < PortLimit
  /\ srv' = [srv EXCEPT !.go = "listen", !.tried = Append(@, srv.port),
                        !.host = logPrintln(@)]
  /\ UNCHANGED <<obsLock, mu, sources, heap, cstr, volm, pc, loc, out, cb, hist,
                 quota, lastCreated, lastSent>>

\* the listener variant that stays on the port whose ListenAndServe failed
ListenFailsSamePort ==
  /\ srv.go = "listen"
  /\ srv' = [srv EXCEPT !.go = "loop",
                        !.last = [port |-> srv.port, err |-> "bind"],
                        !.host = logPrintln(@)]
  /\ UNCHANGED <<obsLock, mu, sources, heap, cstr, volm, pc, loc, out, cb, hist,
                 quota, lastCreated, lastSent>>

\* ListenAndServe cannot bind the port and returns its error at once; the
\* error is logged and the loop steps to the next port
ListenFails ==
  /\ srv.go = "listen"
  /\ srv' = [srv EXCEPT !.go = "loop",
                        !.last = [port |-> srv.port, err |-> "bind"],
                        !.port = @ + 1,
                        !.host = logPrintln(@)]
  /\ UNCHANGED <<obsLock, mu, sources, heap, cstr, volm, pc, loc, out, cb, hist,
                 quota, lastCreated, lastSent>>

\* ListenAndServe binds the port and serves on it
ListenBinds ==
  /\ srv.go = "listen"
  /\ srv' = [srv EXCEPT !.go = "serving"]
  /\ UNCHANGED <<obsLock, mu, sources, heap, cstr, volm, pc, loc, out, cb, hist,
                 quota, lastCreated, lastSent>>

\* a serving ListenAndServe returns (its accept loop failed); the error is
\* logged and the loop steps to the next port
ServeFails ==
  /\ srv.go = "serving"
  /\ srv' = [srv EXCEPT !.go = "loop",
                        !.last = [port |-> srv.port, err |-> "accept"],
                        !.port = @ + 1,
                        !.host = logPrintln(@)]
  /\ UNCHANGED <<obsLock, mu, sources, heap, cstr, volm, pc, loc, out, cb, hist,
                 quota, lastCreated, lastSent>>

\* the loop test fails: the goroutine's function returns
GoEnd ==
  /\ srv.go = "loop"
  /\ srv.port >= PortLimit
  /\ srv' = [srv EXCEPT !.go = "done"]
  /\ UNCHANGED <<obsLock, mu, sources, heap, cstr, volm, pc, loc, out, cb, hist,
                 quota, lastCreated, lastSent>>

NextLoad ==
  \/ ModuleLoadGo
  \/ ModuleLoadReturn
  \/ GoTry
  \/ ListenFails
  \/ ListenBinds
  \/ ServeFails
  \/ GoEnd

SpecLoad == InitLoad /\ [][NextLoad]_vars

\* the errors ListenAndServe returns
ListenErrors == {"bind", "accept"}

C27_State ==
  /\ \A i \in 1..Len(srv.tried) : srv.tried[i] = FirstPort + (i - 1)
  /\ Len(srv.tried) <= PortLimit - FirstPort
  /\ srv.go = "done" =>
       /\ Len(srv.tried) = PortLimit - FirstPort
       /\ srv.tried[Len(srv.tried)] = 9499
  /\ srv.load = "spawned" => ENABLED ModuleLoadReturn
  /\ srv.host = "running"

C27_Step ==
  /\ srv'.tried # srv.tried =>
       /\ srv'.tried = Append(srv.tried, srv.port)
       /\ srv.tried = <<>> => srv.port = FirstPort
       /\ srv.tried # <<>> =>
            /\ srv.last.port = srv.port - 1
            /\ srv.last.port = srv.tried[Len(srv.tried)]
            /\ srv.last.err \in ListenErrors
  /\ (srv.load = "spawned" /\ srv'.load = "returned") =>
       /\ srv'.tried = srv.tried
       /\ srv'.go = srv.go

\* C27: the listener goroutine hands ListenAndServe the ports 9407, 9408, ...
\* 9499 in that order and each at most once, moves to port p+1 only when the
\* call on port p has returned an error, and ends after 9499 with the host
\* process still running; obs_module_load can return true whatever the
\* goroutine is doing, and returning binds nothing.
C27_PortsInOrderLoadReturns == []C27_State /\ [][C27_Step]_vars

\* every port failed, the goroutine ended, obs_module_load returned true
C27_Witness ==
  /\ srv.go = "done"
  /\ srv.load = "returned"
  /\ Len(srv.tried) = PortLimit - FirstPort
  /\ srv.last = [port |-> PortLimit - 1, err |-> "bind"]
  /\ srv.host = "running"

====
